---------------------------- MODULE Spec2Model ----------------------------
(***************************************************************************)
(* megacli: the coding assistant (CodeAssistant), the chat session         *)
(* (ChatSession), the scoped file accessor (FileSystemManager), the        *)
(* response tag parser and the workspace trust set (ConfigManager).        *)
(*                                                                         *)
(* Strings are sequences of one-character strings where the code looks     *)
(* inside them (paths), and sequences of tokens where the code matches     *)
(* tags (model replies).  The host is POSIX (path.resolve, /bin/sh).       *)
(***************************************************************************)
EXTENDS Integers, Sequences, FiniteSets, TLC

VARIABLES
    \* FileSystemManager.validatePath on its own
    pRoot,      \* FileSystemManager.workingDirectory of the accessor under test
    pArg,       \* the filePath argument handed to validatePath
    pOut,       \* what validatePath produced for (pRoot, pArg)
    \* the response tag parser on its own
    tPieces,    \* the model reply under parse, as the pieces it is made of
    tOut,       \* what the two extractors returned for it
    \* the configuration store and the host
    hasApiKey,          \* configManager.getApiKey() is set
    trustedWorkspaces,  \* config 'trustedWorkspaces': an array of paths
    workspacePath,      \* process.cwd()
    files,              \* the filesystem: absolute path -> content
    \* one run of the code command
    mode,               \* "interactive" | "task" (options.task)
    pc,                 \* where the run stands
    exitCode,           \* process exit status once pc = "exited"
    inputs,             \* lines read by the interactive loop so far
    messages,           \* session.messages
    filesModified,      \* session.filesModified
    commandsExecuted,   \* session.commandsExecuted
    rawReply,           \* response.choices[0].message.content of the last call
    reply,              \* processMessage's reply
    fileWrites,         \* processMessage's fileWrites still to run
    commands,           \* processMessage's commands still to run
    \* history, for stating the properties
    accessLog,          \* kinds of side effect performed so far
    untrustedOps,       \* those performed while the workspace was not trusted
    cycleLog,           \* tool and commit events of the current processMessage
    snap,               \* the session as processMessage found it, the messages it
                        \* sent to the model, whether /reset was typed since
    last,               \* the last step taken
    \* one run of the chat command (ChatSession)
    cPc,                \* where the run stands
    cExitCode,          \* process exit status once cPc = "exited"
    cInputs,            \* lines read by the chat loop so far
    cMessages,          \* ChatSession.messages
    currentModel,       \* ChatSession.currentModel
    sampling,           \* ChatSession.temperature and maxTokens
    tokenUsage,         \* ChatSession.tokenUsage
    cSnap,              \* the chat session as sendMessage found it, the last line typed
    cLast,              \* the last step taken
    \* history of the runs of the code command in this workspace
    tally,              \* model calls, trust checks, last trust answer, last line typed
    \* the tag removal of processMessage on its own
    sOut,       \* what the two removals returned for tPieces, once and twice
    \* FileSystemManager over a filesystem of its own
    fFiles,     \* the filesystem: absolute path -> bytes
    fOp,        \* the last accessor call and what it returned
    fWritten,   \* absolute path -> the last write attempted on it
    \* ConfigManager's trusted set on its own
    trustOp     \* the last call on the configuration store, and the set before it

pathVars == <<pRoot, pArg, pOut>>
parseVars == <<tPieces, tOut>>
hostVars == <<hasApiKey, trustedWorkspaces, workspacePath, files>>
sessionVars == <<messages, filesModified, commandsExecuted>>
turnVars == <<rawReply, reply, fileWrites, commands>>
runVars == <<mode, pc, exitCode, inputs>>
historyVars == <<accessLog, untrustedOps, cycleLog, snap, last, tally>>
codeVars == <<hostVars, sessionVars, turnVars, runVars, historyVars>>

chatVars == <<cPc, cExitCode, cInputs, cMessages, currentModel, sampling, tokenUsage,
              cSnap, cLast>>

unitVars == <<sOut, fFiles, fOp, fWritten, trustOp>>

\* what a step of the code command, and of the chat command, leaves alone
notCodeVars == <<pathVars, parseVars, unitVars, chatVars>>
notChatVars == <<pathVars, parseVars, unitVars, codeVars>>

vars == <<pathVars, parseVars, unitVars, codeVars, chatVars>>

-----------------------------------------------------------------------------
(* Bounds *)

\* longest path argument, in segments
MaxArgSegs == 3

\* longest reply handed to the parser, in pieces (tags and plain text)
MaxPieces == 3

\* lines an interactive loop reads before the input stream is closed
MaxInputs == 2

\* calls made on an accessor checked on its own
MaxFsOps == 3

-----------------------------------------------------------------------------
(* Strings *)

Min(a, b) == IF a < b THEN a ELSE b

\* String.prototype.startsWith
StartsWith(s, prefix) ==
    /\ Len(s) >= Len(prefix)
    /\ SubSeq(s, 1, Len(prefix)) = prefix

RECURSIVE SplitFrom(_, _, _, _)
\* the parts of s[i..] between separators, cur being the part read so far
SplitFrom(s, i, cur, sep) ==
    IF i > Len(s) THEN <<cur>>
    ELSE IF s[i] = sep THEN <<cur>> \o SplitFrom(s, i + 1, <<>>, sep)
    ELSE SplitFrom(s, i + 1, Append(cur, s[i]), sep)

\* String.prototype.split
SplitOn(s, sep) == SplitFrom(s, 1, <<>>, sep)

RECURSIVE JoinWith(_, _)
\* Array.prototype.join
JoinWith(parts, sep) ==
    IF parts = <<>> THEN <<>>
    ELSE IF Len(parts) = 1 THEN Head(parts)
    ELSE Head(parts) \o <<sep>> \o JoinWith(Tail(parts), sep)

RECURSIVE Concat(_)
\* the concatenation of a sequence of strings
Concat(ss) == IF ss = <<>> THEN <<>> ELSE Head(ss) \o Concat(Tail(ss))

-----------------------------------------------------------------------------
(* The components a specification does not exercise stay as constructed *)

\* validatePath not called yet
NoResult == [ok |-> FALSE, path |-> <<>>, error |-> "none"]

PathIdle == pRoot = <<"/">> /\ pArg = <<>> /\ pOut = NoResult

\* the extractors not called yet
NotParsed == [done |-> FALSE, fileWrites |-> <<>>, commands |-> <<>>]

ParseIdle == tPieces = <<>> /\ tOut = NotParsed

\* no processMessage entered yet
NoSnap == [messages |-> <<>>, filesModified |-> {}, commandsExecuted |-> <<>>,
           files |-> <<>>, userMessage |-> <<>>, sent |-> <<>>, reset |-> FALSE]

NoUsage == [prompt |-> 0, completion |-> 0, total |-> 0]

NoChatSnap == [messages |-> <<>>, tokenUsage |-> NoUsage, userMessage |-> <<>>,
               usage |-> NoUsage, line |-> <<>>]

\* the chat command not started
ChatIdle ==
    /\ cPc = "idle" /\ cExitCode = 0 /\ cInputs = 0 /\ cMessages = <<>>
    /\ currentModel = "" /\ sampling = [temperature |-> 0, maxTokens |-> 0]
    /\ tokenUsage = NoUsage /\ cSnap = NoChatSnap /\ cLast = "none"

\* a filesystem without files
EmptyFiles == <<>>

\* no run yet: no model call, no cycle, no trust check, no answer to the
\* trust prompt, no line typed
NoTally == [modelCalls |-> 0, cycles |-> 0, trustChecks |-> 0, answered |-> "none",
            line |-> <<>>]

\* the two removals not called yet
NotStripped == [calls |-> 0, once |-> <<>>, twice |-> <<>>]

\* no accessor call yet
NoFsOp == [n |-> 0, op |-> "none", path |-> <<>>, ok |-> FALSE, content |-> <<>>,
           error |-> <<>>]

\* no call on the configuration store yet
NoTrustOp == [op |-> "none", path |-> <<>>, before |-> <<>>, result |-> FALSE,
              since |-> {}]

\* the components with a specification of their own, not exercised
UnitIdle ==
    /\ sOut = NotStripped
    /\ fFiles = <<>> /\ fOp = NoFsOp /\ fWritten = <<>>
    /\ trustOp = NoTrustOp

\* the code command not started
CodeIdle ==
    /\ hasApiKey = FALSE /\ trustedWorkspaces = <<>> /\ workspacePath = <<"/">>
    /\ files = EmptyFiles /\ mode = "none" /\ pc = "idle" /\ exitCode = 0 /\ inputs = 0
    /\ messages = <<>> /\ filesModified = {} /\ commandsExecuted = <<>>
    /\ rawReply = <<>> /\ reply = <<>> /\ fileWrites = <<>> /\ commands = <<>>
    /\ accessLog = {} /\ untrustedOps = {} /\ cycleLog = <<>> /\ snap = NoSnap
    /\ last = "none" /\ tally = NoTally

-----------------------------------------------------------------------------
(* path.resolve (POSIX) *)

SEP == "/"

\* s.split('/')
Split(s) == SplitOn(s, SEP)

DOT == <<".">>
DOTDOT == <<".", ".">>

RECURSIVE NormalizeOnto(_, _)
\* normalizeString: '' and '.' are dropped, '..' pops (and stays at the root)
NormalizeOnto(stack, segs) ==
    IF segs = <<>> THEN stack
    ELSE LET s == Head(segs) IN
         IF s = <<>> \/ s = DOT THEN NormalizeOnto(stack, Tail(segs))
         ELSE IF s = DOTDOT
              THEN NormalizeOnto(IF stack = <<>> THEN <<>>
                                 ELSE SubSeq(stack, 1, Len(stack) - 1), Tail(segs))
              ELSE NormalizeOnto(Append(stack, s), Tail(segs))

RECURSIVE JoinSegs(_)
\* '/' + seg for every segment
JoinSegs(segs) ==
    IF segs = <<>> THEN <<>> ELSE <<SEP>> \o Head(segs) \o JoinSegs(Tail(segs))

\* the absolute path of a normalised segment list ('/' for the empty list)
AbsolutePath(segs) == IF segs = <<>> THEN <<SEP>> ELSE JoinSegs(segs)

IsAbsolute(p) == Len(p) > 0 /\ p[1] = SEP

\* path.resolve(base, p), base absolute
PathResolve(base, p) ==
    IF IsAbsolute(p) THEN AbsolutePath(NormalizeOnto(<<>>, Split(p)))
    ELSE AbsolutePath(NormalizeOnto(<<>>, Split(base) \o Split(p)))

RECURSIVE NormalizeRelOnto(_, _)
\* the normal form of a relative path: '' and '.' are dropped, '..' pops a
\* name and stays when there is none to pop
NormalizeRelOnto(stack, segs) ==
    IF segs = <<>> THEN stack
    ELSE LET seg == Head(segs) IN
         IF seg = <<>> \/ seg = DOT THEN NormalizeRelOnto(stack, Tail(segs))
         ELSE IF seg = DOTDOT /\ stack # <<>> /\ stack[Len(stack)] # DOTDOT
              THEN NormalizeRelOnto(SubSeq(stack, 1, Len(stack) - 1), Tail(segs))
              ELSE NormalizeRelOnto(Append(stack, seg), Tail(segs))

NormalForm(p) == NormalizeRelOnto(<<>>, Split(p))

\* path.join(a, b) of two relative paths: joined with '/', then normalised
pathJoin(a, b) ==
    LET segs == NormalForm(a \o <<SEP>> \o b) IN
    IF segs = <<>> THEN DOT ELSE JoinWith(segs, SEP)

-----------------------------------------------------------------------------
(* FileSystemManager *)

ACCESS_DENIED == "Access denied: Path is outside working directory"

\* FileSystemManager.validatePath: the resolved path, or the error thrown
validatePath(workingDirectory, filePath) ==
    LET resolvedPath == PathResolve(workingDirectory, filePath) IN
    IF ~StartsWith(resolvedPath, workingDirectory)
    THEN [ok |-> FALSE, path |-> <<>>, error |-> ACCESS_DENIED]
    ELSE [ok |-> TRUE, path |-> resolvedPath, error |-> ""]

-----------------------------------------------------------------------------
(* Response tag parser.  A reply is a sequence of tokens: the tag markers  *)
(* the two regular expressions match, and the text between them.           *)

CO == "<execute_command>"
CC == "</execute_command>"
WC == "</write_file>"
\* opening write_file tags, by their path attribute
WO_A == "<write_file path=\"a\">"
WO_UP == "<write_file path=\"../x\">"
WO_SIB == "<write_file path=\"../wx\">"
WO_SP == "<write_file path=\" \">"
\* an opening tag with an empty path: [^"]+ does not match it
WO_EMPTY == "<write_file path=\"\">"

SPACE == " "
NEWLINE == "\n"
Whitespace == {SPACE, NEWLINE}

\* the path attribute of an opening tag that the expression matches
PathAttr(tok) ==
    CASE tok = WO_A -> <<"a">>
      [] tok = WO_UP -> <<".", ".", "/", "x">>
      [] tok = WO_SIB -> <<".", ".", "/", "w", "x">>
      [] tok = WO_SP -> <<SPACE>>

WriteOpen == {WO_A, WO_UP, WO_SIB, WO_SP}

RECURSIVE TrimStart(_)
TrimStart(s) ==
    IF s # <<>> /\ Head(s) \in Whitespace THEN TrimStart(Tail(s)) ELSE s

RECURSIVE TrimEnd(_)
TrimEnd(s) ==
    IF s # <<>> /\ s[Len(s)] \in Whitespace
    THEN TrimEnd(SubSeq(s, 1, Len(s) - 1)) ELSE s

\* String.prototype.trim
Trim(s) == TrimEnd(TrimStart(s))

\* the first index i >= pos with text[i] in toks, 0 when there is none
IndexFrom(text, pos, toks) ==
    LET hits == { i \in pos..Len(text) : text[i] \in toks } IN
    IF hits = {} THEN 0 ELSE CHOOSE i \in hits : \A j \in hits : i <= j

RECURSIVE ExtractCommandsFrom(_, _)
\* the loop of extractCommands, regex.lastIndex - 1 being pos
ExtractCommandsFrom(text, pos) ==
    LET i == IndexFrom(text, pos, {CO})
        j == IF i = 0 THEN 0 ELSE IndexFrom(text, i + 1, {CC})
    IN  IF i = 0 \/ j = 0 THEN <<>>
        ELSE LET cmd == Trim(SubSeq(text, i + 1, j - 1)) IN
             (IF cmd # <<>> THEN <<cmd>> ELSE <<>>) \o ExtractCommandsFrom(text, j + 1)

\* extractCommands without the g flag: the first match only
extractCommandsFirst(text) ==
    IF ExtractCommandsFrom(text, 1) = <<>> THEN <<>>
    ELSE <<Head(ExtractCommandsFrom(text, 1))>>

\* CodeAssistant.extractCommands
extractCommands(text) == ExtractCommandsFrom(text, 1)

RECURSIVE ExtractFileWritesFrom(_, _)
\* the loop of extractFileWrites
ExtractFileWritesFrom(text, pos) ==
    LET i == IndexFrom(text, pos, WriteOpen)
        j == IF i = 0 THEN 0 ELSE IndexFrom(text, i + 1, {WC})
    IN  IF i = 0 \/ j = 0 THEN <<>>
        ELSE LET path == Trim(PathAttr(text[i]))
                 content == Trim(SubSeq(text, i + 1, j - 1))
             IN  (IF path # <<>> THEN <<[path |-> path, content |-> content]>> ELSE <<>>)
                 \o ExtractFileWritesFrom(text, j + 1)

\* extractFileWrites with no intent for a tag whose content holds a command tag
extractFileWritesOutsideCommands(text) ==
    SelectSeq(ExtractFileWritesFrom(text, 1),
              LAMBDA w : ExtractCommandsFrom(w.content, 1) = <<>>)

\* extractFileWrites with a tag of empty content discarded as well
extractFileWritesNeedsContent(text) ==
    SelectSeq(ExtractFileWritesFrom(text, 1), LAMBDA w : w.content # <<>>)

\* CodeAssistant.extractFileWrites
extractFileWrites(text) == ExtractFileWritesFrom(text, 1)

-----------------------------------------------------------------------------
(* The parser over bounded replies *)

\* well-formed tags: a non-empty path, a non-empty command
CmdLs == <<CO, "ls", CC>>
CmdCat == <<CO, SPACE, "cat a", NEWLINE, CC>>
WriteA == <<WO_A, NEWLINE, "x", NEWLINE, WC>>
WriteUpEmpty == <<WO_UP, WC>>
\* a command tag inside the content of a write tag, and the reverse
WriteWithCmd == <<WO_A, CO, "ls", CC, WC>>
CmdWithWrite == <<CO, WO_UP, "x", WC, CC>>
\* a write tag around the command that prints the file written
WriteWithCat == <<WO_A, CO, "cat a", CC, WC>>
WellFormedPieces == {CmdLs, CmdCat, WriteA, WriteUpEmpty, WriteWithCmd, CmdWithWrite}

\* text without tag markers
PlainPieces == { <<"x">>, <<SPACE>> }

\* tags the parser discards, and markers without their partner
OtherPieces == { <<CO, SPACE, CC>>, <<WO_SP, "x", WC>>, <<WO_EMPTY, "x", WC>>,
                 <<CO>>, <<CC>>, <<WO_A>>, <<WC>> }

Pieces == WellFormedPieces \cup PlainPieces \cup OtherPieces

\* the write intents a well-formed piece stands for, by the tag grammar
PieceWrites(piece) ==
    CASE piece = WriteA -> <<[path |-> <<"a">>, content |-> <<"x">>]>>
      [] piece = WriteUpEmpty -> <<[path |-> <<".", ".", "/", "x">>, content |-> <<>>]>>
      [] piece = WriteWithCmd -> <<[path |-> <<"a">>, content |-> <<CO, "ls", CC>>]>>
      [] piece = CmdWithWrite -> <<[path |-> <<".", ".", "/", "x">>, content |-> <<"x">>]>>
      [] OTHER -> <<>>

\* the command intents a well-formed piece stands for
PieceCommands(piece) ==
    CASE piece = CmdLs -> << <<"ls">> >>
      [] piece = CmdCat -> << <<"cat a">> >>
      [] piece = WriteWithCmd -> << <<"ls">> >>
      [] piece = CmdWithWrite -> << <<WO_UP, "x", WC>> >>
      [] OTHER -> <<>>

RECURSIVE FlatMap(_, _)
FlatMap(F(_), seq) == IF seq = <<>> THEN <<>> ELSE F(Head(seq)) \o FlatMap(F, Tail(seq))

ParseInit ==
    /\ tPieces \in UNION { [1..n -> Pieces] : n \in 0..MaxPieces }
    /\ tOut = NotParsed
    /\ PathIdle
    /\ UnitIdle
    /\ CodeIdle
    /\ ChatIdle

\* processMessage's two extractions over one reply
Parse ==
    /\ ~tOut.done
    /\ tOut' = [done |-> TRUE,
                fileWrites |-> extractFileWrites(Concat(tPieces)),
                commands |-> extractCommands(Concat(tPieces))]
    /\ UNCHANGED <<tPieces, pathVars, unitVars, codeVars, chatVars>>

ParseNext == Parse

SpecParse == ParseInit /\ [][ParseNext]_vars

-----------------------------------------------------------------------------
(* The tag removal of processMessage.  A string is its characters, so the   *)
(* text left and right of a removed span is one string afterwards: the two  *)
(* halves of a marker, side by side, are the marker.                        *)

CO_HEAD == "<execute_"
CO_TAIL == "command>"
WO_HEAD == "<write_"
WO_TAIL_A == "file path=\"a\">"

RECURSIVE Fuse(_)
\* the string a sequence of tokens spells
Fuse(text) ==
    IF Len(text) < 2 THEN text
    ELSE IF text[1] = CO_HEAD /\ text[2] = CO_TAIL
         THEN <<CO>> \o Fuse(SubSeq(text, 3, Len(text)))
    ELSE IF text[1] = WO_HEAD /\ text[2] = WO_TAIL_A
         THEN <<WO_A>> \o Fuse(SubSeq(text, 3, Len(text)))
    ELSE <<text[1]>> \o Fuse(Tail(text))

RECURSIVE RemoveSpansFrom(_, _, _, _)
\* text.replace(/open[\s\S]*?close/g, '') from pos on: the matches are found
\* left to right in the text as it is, and what is left is put together
RemoveSpansFrom(text, pos, opens, close) ==
    LET i == IndexFrom(text, pos, opens)
        j == IF i = 0 THEN 0 ELSE IndexFrom(text, i + 1, {close})
    IN  IF i = 0 \/ j = 0 THEN SubSeq(text, pos, Len(text))
        ELSE SubSeq(text, pos, i - 1) \o RemoveSpansFrom(text, j + 1, opens, close)

\* CodeAssistant.removeCommandTags
removeCommandTags(text) == Trim(Fuse(RemoveSpansFrom(text, 1, {CO}, CC)))

\* CodeAssistant.removeFileWriteTags
removeFileWriteTags(text) == Trim(Fuse(RemoveSpansFrom(text, 1, WriteOpen, WC)))

\* processMessage's cleanMessage
stripTags(text) == removeCommandTags(removeFileWriteTags(text))

\* the pieces of the replies handed to the removal
StripPieces == { CmdLs, WriteA, <<"x">>, <<SPACE>>, <<CC>>, <<WC>>,
                 <<CO_HEAD>>, <<CO_TAIL, "y", CC>>, <<WO_HEAD>>, <<WO_TAIL_A, "y", WC>> }

StripInit ==
    /\ tPieces \in UNION { [1..n -> StripPieces] : n \in 0..MaxPieces }
    /\ tOut = NotParsed
    /\ sOut = NotStripped
    /\ fFiles = <<>> /\ fOp = NoFsOp /\ fWritten = <<>> /\ trustOp = NoTrustOp
    /\ PathIdle
    /\ CodeIdle
    /\ ChatIdle

\* the two removals over the reply
Strip ==
    /\ sOut.calls = 0
    /\ sOut' = [calls |-> 1, once |-> stripTags(Fuse(Concat(tPieces))), twice |-> <<>>]
    /\ UNCHANGED <<pathVars, parseVars, fFiles, fOp, fWritten, trustOp, codeVars, chatVars>>

\* the two removals over what they returned
StripAgain ==
    /\ sOut.calls = 1
    /\ sOut' = [sOut EXCEPT !.calls = 2, !.twice = stripTags(sOut.once)]
    /\ UNCHANGED <<pathVars, parseVars, fFiles, fOp, fWritten, trustOp, codeVars, chatVars>>

StripNext == Strip \/ StripAgain

SpecStrip == StripInit /\ [][StripNext]_vars

-----------------------------------------------------------------------------
(* FileSystemManager over the filesystem `files` *)

EACCES == "EACCES: permission denied"
EISDIR == "EISDIR: illegal operation on a directory"
ENOTDIR == "ENOTDIR: not a directory"

\* a code unit that is half of a surrogate pair without its partner, the
\* replacement character, and the three bytes UTF-8 has for the latter
LONE_SURROGATE == "U+D800"
REPLACEMENT == "U+FFFD"
FFFD_BYTES == "EF BF BD"

\* Buffer.from(content, 'utf-8'): every other token stands for its own bytes
Utf8Encode(content) ==
    [i \in 1..Len(content) |->
        IF content[i] \in {LONE_SURROGATE, REPLACEMENT} THEN FFFD_BYTES ELSE content[i]]

\* buffer.toString('utf-8')
Utf8Decode(bytes) ==
    [i \in 1..Len(bytes) |-> IF bytes[i] = FFFD_BYTES THEN REPLACEMENT ELSE bytes[i]]

\* p lies below the directory d
Below(d, p) ==
    /\ Len(p) > Len(d)
    /\ SubSeq(p, 1, Len(d)) = d
    /\ d = <<SEP>> \/ p[Len(d) + 1] = SEP

\* p is a directory: the working directory, one above it, or one holding a file
IsDirectory(workingDirectory, fs, p) ==
    \/ p = workingDirectory
    \/ Below(p, workingDirectory)
    \/ \E f \in DOMAIN fs : Below(p, f)

\* a file stands where p needs a directory
FileAbove(fs, p) == \E f \in DOMAIN fs : Below(f, p)

\* fsWriteFile opening the file without truncation: what is there stays
fsWriteFileKeepsExisting(workingDirectory, fs, filePath, content) ==
    LET v == validatePath(workingDirectory, filePath) IN
    IF ~v.ok THEN { [ok |-> FALSE, files |-> fs, error |-> v.error] }
    ELSE IF FileAbove(fs, v.path) THEN { [ok |-> FALSE, files |-> fs, error |-> ENOTDIR] }
    ELSE IF IsDirectory(workingDirectory, fs, v.path)
         THEN { [ok |-> FALSE, files |-> fs, error |-> EISDIR] }
    ELSE { [ok |-> TRUE, files |-> fs @@ (v.path :> Utf8Encode(content)), error |-> ""],
           [ok |-> FALSE, files |-> fs, error |-> EACCES] }

\* FileSystemManager.writeFile: the outcomes it can have
fsWriteFile(workingDirectory, fs, filePath, content) ==
    LET v == validatePath(workingDirectory, filePath) IN
    IF ~v.ok THEN { [ok |-> FALSE, files |-> fs, error |-> v.error] }
    \* mkdir(dirname, recursive) throws
    ELSE IF FileAbove(fs, v.path) THEN { [ok |-> FALSE, files |-> fs, error |-> ENOTDIR] }
    ELSE IF IsDirectory(workingDirectory, fs, v.path)
         THEN { [ok |-> FALSE, files |-> fs, error |-> EISDIR] }
    ELSE { [ok |-> TRUE, files |-> (v.path :> Utf8Encode(content)) @@ fs, error |-> ""],
           [ok |-> FALSE, files |-> fs, error |-> EACCES] }

\* FileSystemManager.readFile: the outcomes it can have
fsReadFile(workingDirectory, fs, filePath) ==
    LET v == validatePath(workingDirectory, filePath) IN
    IF ~v.ok THEN { [ok |-> FALSE, content |-> <<>>, error |-> <<v.error>>] }
    ELSE IF v.path \in DOMAIN fs
         THEN { [ok |-> TRUE, content |-> Utf8Decode(fs[v.path]), error |-> <<>>],
                [ok |-> FALSE, content |-> <<>>, error |-> <<EACCES>>] }
    ELSE IF IsDirectory(workingDirectory, fs, v.path)
         THEN { [ok |-> FALSE, content |-> <<>>, error |-> <<EISDIR>>] }
         ELSE { [ok |-> FALSE, content |-> <<>>,
                 error |-> <<"File not found: ">> \o filePath] }

ENOENT == "ENOENT: no such file or directory"

\* exists with validatePath called outside the try
fsExistsUnguarded(workingDirectory, fs, filePath) ==
    LET v == validatePath(workingDirectory, filePath) IN
    IF ~v.ok THEN { [threw |-> TRUE, value |-> FALSE, error |-> <<v.error>>] }
    ELSE IF v.path \in DOMAIN fs \/ IsDirectory(workingDirectory, fs, v.path)
         THEN { [threw |-> FALSE, value |-> TRUE, error |-> <<>>],
                [threw |-> FALSE, value |-> FALSE, error |-> <<EACCES>>] }
         ELSE { [threw |-> FALSE, value |-> FALSE, error |-> <<ENOENT>>] }

\* FileSystemManager.exists: what it returns, and the error its catch took;
\* fs.access fails for a path that is not there, and for one it may not reach
fsExists(workingDirectory, fs, filePath) ==
    LET v == validatePath(workingDirectory, filePath) IN
    IF ~v.ok THEN { [threw |-> FALSE, value |-> FALSE, error |-> <<v.error>>] }
    ELSE IF v.path \in DOMAIN fs \/ IsDirectory(workingDirectory, fs, v.path)
         THEN { [threw |-> FALSE, value |-> TRUE, error |-> <<>>],
                [threw |-> FALSE, value |-> FALSE, error |-> <<EACCES>>] }
         ELSE { [threw |-> FALSE, value |-> FALSE, error |-> <<ENOENT>>] }

\* FileSystemManager.deleteFile: the outcomes it can have
fsDeleteFile(workingDirectory, fs, filePath) ==
    LET v == validatePath(workingDirectory, filePath) IN
    IF ~v.ok THEN { [ok |-> FALSE, files |-> fs, error |-> v.error] }
    ELSE IF v.path \in DOMAIN fs
         THEN { [ok |-> TRUE, files |-> [f \in DOMAIN fs \ {v.path} |-> fs[f]], error |-> ""],
                [ok |-> FALSE, files |-> fs, error |-> EACCES] }
    ELSE IF IsDirectory(workingDirectory, fs, v.path)
         THEN { [ok |-> FALSE, files |-> fs, error |-> EISDIR] }
         ELSE { [ok |-> FALSE, files |-> fs, error |-> "ENOENT: no such file or directory"] }

BACKUP_SUFFIX == ".backup"

\* FileSystemManager.createBackup: the outcomes it can have.  The bytes are
\* copied as they are; an error of the read or of the write is wrapped
fsCreateBackup(workingDirectory, fs, filePath) ==
    LET v == validatePath(workingDirectory, filePath)
        backupPath == Append(v.path, BACKUP_SUFFIX)
        Failed(e) == [ok |-> FALSE, files |-> fs, path |-> <<>>,
                      error |-> <<"Failed to create backup: ", e>>]
    IN  IF ~v.ok THEN { [ok |-> FALSE, files |-> fs, path |-> <<>>, error |-> <<v.error>>] }
        ELSE IF v.path \in DOMAIN fs
             THEN { [ok |-> TRUE, files |-> (backupPath :> fs[v.path]) @@ fs,
                     path |-> backupPath, error |-> <<>>],
                    Failed(EACCES) }
        ELSE IF IsDirectory(workingDirectory, fs, v.path) THEN { Failed(EISDIR) }
        ELSE { Failed(ENOENT) }

\* path.dirname of an absolute path
Dirname(p) ==
    LET segs == NormalizeOnto(<<>>, Split(p)) IN
    AbsolutePath(SubSeq(segs, 1, Len(segs) - 1))

\* fsTouched with writeFile making the parent directory before it validates
fsTouchedMkdirFirst(op, workingDirectory, filePath) ==
    LET v == validatePath(workingDirectory, filePath) IN
    IF op = "write"
    THEN {Dirname(PathResolve(workingDirectory, filePath))}
         \cup (IF v.ok THEN {v.path} ELSE {})
    ELSE IF ~v.ok THEN {}
    ELSE IF op = "backup" THEN {v.path, Append(v.path, BACKUP_SUFFIX)}
    ELSE {v.path}

\* the paths an operation of the accessor hands to the filesystem: each
\* calls validatePath first, which throws before any of fs.readFile,
\* fs.mkdir, fs.writeFile, fs.stat, fs.readdir, fs.unlink is reached
fsTouched(op, workingDirectory, filePath) ==
    LET v == validatePath(workingDirectory, filePath) IN
    IF ~v.ok THEN {}
    ELSE IF op = "write" THEN {Dirname(v.path), v.path}
    ELSE IF op = "backup" THEN {v.path, Append(v.path, BACKUP_SUFFIX)}
    ELSE {v.path}

RECURSIVE SeqOf(_)
\* the elements of a finite set in the order the filesystem hands them out
SeqOf(S) ==
    IF S = {} THEN <<>>
    ELSE LET x == CHOOSE y \in S : TRUE IN <<x>> \o SeqOf(S \ {x})

\* fs.readdir(dir): the names of what stands directly in dir
ChildNames(fs, dir) ==
    { Head(Split(SubSeq(f, Len(dir) + (IF dir = <<SEP>> THEN 1 ELSE 2), Len(f)))) :
        f \in { g \in DOMAIN fs : Below(dir, g) } }

\* FileSystemManager.getFileInfo; fs.stat fails on the paths in blocked and
\* on what is not there
fsGetFileInfo(workingDirectory, fs, filePath, blocked) ==
    LET v == validatePath(workingDirectory, filePath) IN
    IF ~v.ok THEN [ok |-> FALSE, info |-> <<>>, error |-> v.error]
    ELSE IF v.path \in blocked THEN [ok |-> FALSE, info |-> <<>>, error |-> EACCES]
    ELSE IF v.path \in DOMAIN fs
         THEN [ok |-> TRUE, error |-> "",
               info |-> <<[path |-> filePath, isDirectory |-> FALSE,
                           size |-> Len(fs[v.path])]>>]
    ELSE IF IsDirectory(workingDirectory, fs, v.path)
         THEN [ok |-> TRUE, error |-> "",
               info |-> <<[path |-> filePath, isDirectory |-> TRUE, size |-> 0]>>]
         ELSE [ok |-> FALSE, info |-> <<>>, error |-> ENOENT]

RECURSIVE ListEntries(_, _, _, _, _)
\* listDirectory's loop over the entries: the info of each, or nothing when
\* getFileInfo throws
ListEntries(workingDirectory, fs, dirPath, names, blocked) ==
    IF names = <<>> THEN <<>>
    ELSE fsGetFileInfo(workingDirectory, fs, pathJoin(dirPath, Head(names)), blocked).info
         \o ListEntries(workingDirectory, fs, dirPath, Tail(names), blocked)

\* what validatePath and fs.readdir come to for listDirectory
ReadDir(workingDirectory, fs, dirPath, blocked) ==
    LET v == validatePath(workingDirectory, dirPath) IN
    IF ~v.ok THEN [ok |-> FALSE, names |-> <<>>, error |-> v.error]
    ELSE IF v.path \in DOMAIN fs THEN [ok |-> FALSE, names |-> <<>>, error |-> ENOTDIR]
    ELSE IF ~IsDirectory(workingDirectory, fs, v.path)
         THEN [ok |-> FALSE, names |-> <<>>, error |-> ENOENT]
    ELSE [ok |-> TRUE, names |-> SeqOf(ChildNames(fs, v.path)), error |-> ""]

\* listDirectory with getFileInfo called outside a try
fsListDirectoryThrows(workingDirectory, fs, dirPath, blocked) ==
    LET d == ReadDir(workingDirectory, fs, dirPath, blocked)
        failed == { k \in 1..Len(d.names) :
                      ~fsGetFileInfo(workingDirectory, fs,
                                     pathJoin(dirPath, d.names[k]), blocked).ok }
    IN  IF ~d.ok THEN [ok |-> FALSE, names |-> <<>>, entries |-> <<>>, error |-> d.error]
        ELSE IF failed # {}
        THEN [ok |-> FALSE, names |-> d.names, entries |-> <<>>, error |-> EACCES]
        ELSE [ok |-> TRUE, names |-> d.names, error |-> "",
              entries |-> ListEntries(workingDirectory, fs, dirPath, d.names, blocked)]

\* FileSystemManager.listDirectory
fsListDirectory(workingDirectory, fs, dirPath, blocked) ==
    LET d == ReadDir(workingDirectory, fs, dirPath, blocked) IN
    IF ~d.ok THEN [ok |-> FALSE, names |-> <<>>, entries |-> <<>>, error |-> d.error]
    ELSE [ok |-> TRUE, names |-> d.names, error |-> "",
          entries |-> ListEntries(workingDirectory, fs, dirPath, d.names, blocked)]

\* the glob patterns: everything below the working directory, and everything
\* below the directory above it
GLOB_ALL == "**/*"
GLOB_UP_ALL == "../**/*"

\* p as a path relative to the directory dir it lies below
RelativeTo(dir, p) == SubSeq(p, Len(dir) + (IF dir = <<SEP>> THEN 1 ELSE 2), Len(p))

\* FileSystemManager.findFiles: glob(pattern, {cwd, nodir}), the files that
\* match as paths relative to the working directory
findFiles(workingDirectory, fs, pattern) ==
    LET up == PathResolve(workingDirectory, DOTDOT) IN
    IF pattern = GLOB_ALL
    THEN SeqOf({ RelativeTo(workingDirectory, f) :
                   f \in { g \in DOMAIN fs : Below(workingDirectory, g) } })
    ELSE SeqOf({ DOTDOT \o <<SEP>> \o RelativeTo(up, f) :
                   f \in { g \in DOMAIN fs : Below(up, g) } })

\* the characters that mean something in a regular expression
MetaChars == {".", "*", "("}

\* searchText.replace(/[.*+?^${}()|[\]\\]/g, '\\$&'): a backslash before each
Escape(text) == [k \in 1..Len(text) |-> IF text[k] \in MetaChars THEN <<"\\", text[k]>>
                                        ELSE <<text[k]>>]

\* new RegExp(source) throws: a quantifier with nothing to repeat, a group
\* left open
BadSource(source) ==
    \/ source # <<>> /\ Head(source) = <<"*">>
    \/ \E k \in 1..Len(source) : source[k] = <<"(">>

\* the regular expression matches the character c with its item
ItemMatches(item, c) ==
    IF Len(item) = 2 THEN c = item[2]
    ELSE IF item = <<".">> THEN c # NEWLINE
    ELSE c = item[1]

\* the regular expression matches line at position pos
MatchesAt(source, line, pos) ==
    /\ pos + Len(source) - 1 <= Len(line)
    /\ \A k \in 1..Len(source) : ItemMatches(source[k], line[pos + k - 1])

RECURSIVE ExecLoop(_, _, _)
\* while ((match = searchRegex.exec(line)) !== null): the columns pushed,
\* lastIndex being pos - 1; the source is not empty
ExecLoop(source, line, pos) ==
    IF pos > Len(line) THEN <<>>
    ELSE IF MatchesAt(source, line, pos)
         THEN <<pos>> \o ExecLoop(source, line, pos + Len(source))
         ELSE ExecLoop(source, line, pos + 1)

\* the matches of one file's content: line number and column of each
MatchesIn(source, content) ==
    LET lines == SplitOn(content, NEWLINE)
        OfLine(n) == LET cols == ExecLoop(source, lines[n], 1) IN
                     [k \in 1..Len(cols) |-> [line |-> n, column |-> cols[k]]]
        RECURSIVE From(_)
        From(n) == IF n > Len(lines) THEN <<>> ELSE OfLine(n) \o From(n + 1)
    IN From(1)

\* this.readFile(file) inside searchInFiles, the reads of the paths in
\* blocked failing
SearchRead(workingDirectory, fs, file, blocked) ==
    LET v == validatePath(workingDirectory, file)
        outs == fsReadFile(workingDirectory, fs, file)
    IN  IF v.ok /\ v.path \notin blocked /\ \E r \in outs : r.ok
        THEN CHOOSE r \in outs : r.ok
        ELSE CHOOSE r \in outs : ~r.ok

RECURSIVE SearchLoop(_, _, _, _, _)
\* searchInFiles' loop over the files found, the regular expression having a
\* source that is not empty
SearchLoop(workingDirectory, fs, found, source, blocked) ==
    IF found = <<>> THEN <<>>
    ELSE LET file == Head(found)
             r == SearchRead(workingDirectory, fs, file, blocked)
             matches == IF r.ok /\ ~BadSource(source)
                        THEN MatchesIn(source, r.content) ELSE <<>>
         IN (IF matches # <<>> THEN <<[path |-> file, matches |-> matches]>> ELSE <<>>)
            \o SearchLoop(workingDirectory, fs, Tail(found), source, blocked)

\* FileSystemManager.searchInFiles.  With an empty source exec matches the
\* empty string at lastIndex and leaves lastIndex where it is, so the while
\* loop of the first file read goes round for ever, pushing a match each time
fsSearchInFiles(workingDirectory, fs, pattern, searchText, blocked) ==
    LET found == findFiles(workingDirectory, fs, pattern)
        source == Escape(searchText)
        readable == { k \in 1..Len(found) :
                        SearchRead(workingDirectory, fs, found[k], blocked).ok }
    IN  IF source = <<>> /\ readable # {}
        THEN [returned |-> FALSE, threw |-> FALSE, found |-> found, results |-> <<>>]
        ELSE [returned |-> TRUE, threw |-> FALSE, found |-> found,
              results |-> SearchLoop(workingDirectory, fs, found, source, blocked)]

-----------------------------------------------------------------------------
(* ConfigManager *)

\* Array.prototype.includes
Includes(arr, x) == \E i \in 1..Len(arr) : arr[i] = x

\* ConfigManager.isWorkspaceTrusted
isWorkspaceTrusted(trusted, path) == Includes(trusted, path)

\* a trustWorkspace that pushes without looking
trustWorkspaceAlwaysPushes(trusted, path) == Append(trusted, path)

\* ConfigManager.trustWorkspace: the new value of 'trustedWorkspaces'
trustWorkspace(trusted, path) ==
    IF ~Includes(trusted, path) THEN Append(trusted, path) ELSE trusted

-----------------------------------------------------------------------------
(* ProjectAnalyzer *)

PACKAGE_JSON == <<"package.json">>
EMPTY_OBJECT == <<"{}">>

\* ProjectAnalyzer.buildAIContext: the context, or the error it throws
buildAIContext(workingDirectory, fs) ==
    LET pkg == PathResolve(workingDirectory, PACKAGE_JSON) IN
    IF pkg \notin DOMAIN fs
    THEN { [ok |-> TRUE, context |-> <<"# Project Context", NEWLINE, "Project Type: unknown">>] }
    ELSE IF Utf8Decode(fs[pkg]) = EMPTY_OBJECT
         THEN { [ok |-> TRUE,
                 context |-> <<"# Project Context", NEWLINE, "Project Type: javascript",
                               NEWLINE, "## package.json", NEWLINE>>
                              \o Utf8Decode(fs[pkg])] }
         \* JSON.parse throws on anything else
         ELSE { [ok |-> FALSE, context |-> <<>>] }

-----------------------------------------------------------------------------
(* CodeAssistant *)

SYSTEM_PROMPT == <<"You are an expert coding assistant working in a CLI environment.">>

NO_RESPONSE == <<"No response">>

\* output.slice(0, 1000)
ContextBudget == 1000

\* a token is one character of text, but for KILO, which stands for a run
\* of a thousand FILLER characters
KILO == "[x * 1000]"
FILLER == "x"
Width(tok) == IF tok = KILO THEN 1000 ELSE 1

RECURSIVE CharLen(_)
\* String.prototype.length
CharLen(str) == IF str = <<>> THEN 0 ELSE Width(Head(str)) + CharLen(Tail(str))

RECURSIVE Slice(_, _)
\* str.slice(0, n): the first n characters
Slice(str, n) ==
    IF str = <<>> \/ n = 0 THEN <<>>
    ELSE IF Width(Head(str)) <= n
         THEN <<Head(str)>> \o Slice(Tail(str), n - Width(Head(str)))
         ELSE [i \in 1..n |-> FILLER]

Msg(role, content) == [role |-> role, content |-> content]

\* the workspaces of the host, and the one the command is run in
Workspace == <<"/", "w">>
OtherWorkspace == <<"/", "o">>

\* what the remote model can return as content
Replies == {
    <<>>,
    <<"done">>,
    <<CO, SPACE, CC>>,
    <<"ok", SPACE>> \o WriteA \o CmdCat,
    CmdCat \o WriteA,
    WriteUpEmpty \o CmdLs \o WriteA \o CmdCat,
    <<WO_SIB, "x", WC>>,
    WriteWithCat }

\* the lines the user can type
InputLines == {
    <<>>, <<SPACE, SPACE>>,
    <<SPACE, "fix it", SPACE>>,
    <<"/", "exit">>, <<"/", "quit">>, <<"/", "clear">>, <<"/", "help">>,
    <<"/", "write">>, <<"/", "tree">>, <<"/", "files">>, <<"/", "reset">>,
    <<"/", "search", SPACE, "x">>, <<"/", "search">>,
    <<"/", "read">>, <<"/", "read", SPACE, "a">>,
    <<"/", "read", SPACE, ".", ".", "/", "x">>,
    <<"/", "bogus">> }

\* the instruction of --task
Tasks == { <<"fix it">> }

\* initialMessages without the operating instructions
initialMessagesNoPrompt == <<>>

\* resetMessages keeping the project context that follows the instructions
resetMessagesKeepsContext(msgs) == SubSeq(msgs, 1, Min(2, Len(msgs)))

\* replyOf without the placeholder
replyOfContent(content) == content

\* session.messages as the constructor sets it
initialMessages == <<Msg("system", SYSTEM_PROMPT)>>

\* session.messages as /reset sets it
resetMessages(msgs) == <<Msg("system", SYSTEM_PROMPT)>>

\* processMessage's reply for the content the model returned
replyOf(content) == IF content = <<>> THEN NO_RESPONSE ELSE content

\* the side effects logged while the workspace is not in the trusted set
Log(kinds) ==
    /\ accessLog' = accessLog \cup kinds
    /\ untrustedOps' = IF isWorkspaceTrusted(trustedWorkspaces, workspacePath)
                       THEN untrustedOps ELSE untrustedOps \cup kinds

NoLog == UNCHANGED <<accessLog, untrustedOps>>

\* ConfigManager.getApiKey: the stored key, or else the environment's
getApiKey(apiKey, env) == IF apiKey # "" THEN apiKey ELSE env

\* the keys the configuration store and MEGALLM_API_KEY can hold ("" for none)
ApiKeys == {"", "sk-mega-1"}

NO_TASK == <<"[undefined]">>

\* what --task can be given: nothing, the empty string, an instruction
TaskOptions == {NO_TASK, <<>>} \cup Tasks

\* codeCommand: the entry point `if (options.task)` selects
entryPoint(task) == IF task = NO_TASK \/ task = <<>> THEN "interactive" ELSE "task"

\* Construct without the constructor's check of the key
ConstructWithoutKey ==
    /\ pc = "new"
    /\ messages' = initialMessages
    /\ pc' = IF mode = "task" THEN "analyze" ELSE "start"
    /\ last' = "constructed"
    /\ UNCHANGED <<notCodeVars, tally, hostVars, filesModified, commandsExecuted,
                   turnVars, mode, exitCode, inputs, accessLog, untrustedOps, cycleLog, snap>>

\* codeCommand: new CodeAssistant(), then the entry point options.task selects
Construct ==
    /\ pc = "new"
    /\ IF ~hasApiKey
       THEN \* the constructor throws; codeCommand prints and exits
            /\ pc' = "exited" /\ exitCode' = 1
            /\ UNCHANGED messages
            /\ last' = "setupFailed"
       ELSE /\ messages' = initialMessages
            /\ pc' = IF mode = "task" THEN "analyze" ELSE "start"
            /\ UNCHANGED exitCode
            /\ last' = "constructed"
    /\ UNCHANGED <<notCodeVars, tally, hostVars, filesModified, commandsExecuted,
                   turnVars, mode, inputs, accessLog, untrustedOps, cycleLog, snap>>

\* startInteractive: the workspace trust check
CheckTrust ==
    /\ pc = "start"
    /\ pc' = IF isWorkspaceTrusted(trustedWorkspaces, workspacePath)
             THEN "analyze" ELSE "trustPrompt"
    /\ last' = "trustChecked"
    /\ tally' = [tally EXCEPT !.trustChecks = @ + 1]
    /\ UNCHANGED <<notCodeVars, hostVars, sessionVars, turnVars, mode,
                   exitCode, inputs, accessLog, untrustedOps, cycleLog, snap>>

\* AnswerTrust with the answer ignored: the session goes on after 'no'
AnswerTrustProceeds ==
    /\ pc = "trustPrompt"
    /\ \E answer \in {"yes", "no"} :
         /\ tally' = [tally EXCEPT !.answered = answer]
         /\ trustedWorkspaces' = IF answer = "yes"
                                 THEN trustWorkspace(trustedWorkspaces, workspacePath)
                                 ELSE trustedWorkspaces
         /\ pc' = "analyze"
         /\ last' = IF answer = "yes" THEN "trusted" ELSE "declined"
    /\ UNCHANGED <<notCodeVars, hasApiKey, workspacePath, files,
                   sessionVars, turnVars, mode, exitCode, inputs, accessLog,
                   untrustedOps, cycleLog, snap>>

\* AnswerTrust without the call of trustWorkspace after 'yes'
AnswerTrustForgets ==
    /\ pc = "trustPrompt"
    /\ \E answer \in {"yes", "no"} :
         /\ tally' = [tally EXCEPT !.answered = answer]
         /\ pc' = IF answer = "yes" THEN "analyze" ELSE "exited"
         /\ last' = IF answer = "yes" THEN "trusted" ELSE "declined"
    /\ UNCHANGED <<notCodeVars, hostVars, sessionVars, turnVars, mode, exitCode,
                   inputs, accessLog, untrustedOps, cycleLog, snap>>

\* promptWorkspaceTrust answered, and what startInteractive does with the answer
AnswerTrust ==
    /\ pc = "trustPrompt"
    /\ \E answer \in {"yes", "no"} :
         /\ tally' = [tally EXCEPT !.answered = answer]
         /\ IF answer = "yes"
            THEN /\ trustedWorkspaces' = trustWorkspace(trustedWorkspaces, workspacePath)
                 /\ pc' = "analyze"
                 /\ last' = "trusted"
            ELSE /\ UNCHANGED trustedWorkspaces
                 /\ pc' = "exited"
                 /\ last' = "declined"
    /\ UNCHANGED <<notCodeVars, hasApiKey, workspacePath, files, sessionVars,
                   turnVars, mode, exitCode, inputs, accessLog, untrustedOps,
                   cycleLog, snap>>

\* the trust prompt is closed (ExitPromptError): codeCommand prints and exits
TrustPromptClosed ==
    /\ pc = "trustPrompt"
    /\ pc' = "exited" /\ exitCode' = 1
    /\ last' = "promptClosed"
    /\ UNCHANGED <<notCodeVars, tally, hostVars, sessionVars, turnVars, mode,
                   inputs, accessLog, untrustedOps, cycleLog, snap>>

\* StartProcessMessage with the request built before the user message is pushed
StartProcessMessageSendsEarly(msgs, userMessage) ==
    /\ snap' = [messages |-> msgs, filesModified |-> filesModified,
                commandsExecuted |-> commandsExecuted, files |-> files,
                userMessage |-> userMessage, sent |-> msgs, reset |-> FALSE]
    /\ messages' = Append(msgs, Msg("user", userMessage))
    /\ cycleLog' = <<>>
    /\ pc' = "modelCall"

\* processMessage up to the await of the model call, msgs being
\* session.messages: the push of the user message, and the request made with
\* messages: this.session.messages
StartProcessMessage(msgs, userMessage) ==
    /\ snap' = [messages |-> msgs, filesModified |-> filesModified,
                commandsExecuted |-> commandsExecuted, files |-> files,
                userMessage |-> userMessage,
                sent |-> Append(msgs, Msg("user", userMessage)), reset |-> FALSE]
    /\ messages' = Append(msgs, Msg("user", userMessage))
    /\ cycleLog' = <<>>
    /\ pc' = "modelCall"

\* the project analysis of startInteractive and executeTask; executeTask goes
\* on into processMessage(task)
Analyze ==
    /\ pc = "analyze"
    /\ Log({"fs"})
    /\ \E r \in buildAIContext(workspacePath, files) \cup {[ok |-> FALSE, context |-> <<>>]} :
         LET analysed == IF r.ok
                         THEN Append(messages, Msg("system",
                                  <<"Current project context:", NEWLINE>> \o r.context))
                         ELSE messages
         IN  IF mode = "task"
             THEN \E task \in Tasks : StartProcessMessage(analysed, task)
             ELSE /\ messages' = analysed
                  /\ pc' = "awaiting"
                  /\ UNCHANGED <<snap, cycleLog>>
    /\ last' = "analysed"
    /\ UNCHANGED <<notCodeVars, tally, hostVars, filesModified, commandsExecuted,
                   turnVars, mode, exitCode, inputs>>

\* the code fence (three backquotes) around the file content
FENCE == "[fence]"

\* readFile with the error of a failed read put in the history
readFileRecordsFailure(filePath) ==
    IF filePath = <<>>
    THEN /\ last' = "readFailed"
         /\ UNCHANGED <<messages, accessLog, untrustedOps>>
    ELSE /\ Log({"fs"})
         /\ \E r \in fsReadFile(workspacePath, files, filePath) :
              /\ messages' = Append(messages, Msg("system",
                     IF r.ok
                     THEN <<"File content of ">> \o filePath
                          \o <<":", NEWLINE, FENCE, NEWLINE>> \o r.content
                          \o <<NEWLINE, FENCE>>
                     ELSE <<"Could not read file: ">> \o r.error))
              /\ last' = IF r.ok THEN "read" ELSE "readFailed"

\* CodeAssistant.readFile (/read)
readFile(filePath) ==
    IF filePath = <<>>
    THEN \* the usage line
         /\ last' = "readFailed"
         /\ UNCHANGED <<messages, accessLog, untrustedOps>>
    ELSE /\ Log({"fs"})
         /\ \E r \in fsReadFile(workspacePath, files, filePath) :
              /\ messages' = IF r.ok
                             THEN Append(messages, Msg("system",
                                      <<"File content of ">> \o filePath
                                      \o <<":", NEWLINE, FENCE, NEWLINE>> \o r.content
                                      \o <<NEWLINE, FENCE>>))
                             ELSE messages
              /\ last' = IF r.ok THEN "read" ELSE "readFailed"

\* CodeAssistant.searchFiles (/search)
searchFiles(query) ==
    /\ IF query = <<>> THEN NoLog ELSE Log({"fs"})
    /\ UNCHANGED messages

\* handleCommand with a line of unknown verb kept in the history as a user
\* message
handleCommandKeepsUnknown(command) ==
    LET parts == SplitOn(Tail(command), SPACE)
        cmd == Head(parts)
        args == JoinWith(Tail(parts), SPACE)
    IN  /\ IF cmd \in { <<"exit">>, <<"quit">> }
           THEN pc' = "exited" /\ UNCHANGED <<messages, accessLog, untrustedOps>>
           ELSE /\ pc' = "awaiting"
                /\ CASE cmd = <<"read">> -> readFile(args)
                     [] cmd = <<"search">> -> searchFiles(args)
                     [] cmd \in { <<"tree">>, <<"files">> } ->
                            Log({"fs"}) /\ UNCHANGED messages
                     [] cmd = <<"reset">> ->
                            messages' = resetMessages(messages) /\ NoLog
                     [] cmd \in { <<"clear">>, <<"write">>, <<"help">> } ->
                            UNCHANGED <<messages, accessLog, untrustedOps>>
                     [] OTHER -> messages' = Append(messages, Msg("user", command)) /\ NoLog
        /\ IF cmd = <<"read">>
           THEN TRUE
           ELSE last' = IF cmd \in { <<"exit">>, <<"quit">>, <<"clear">>, <<"write">>, <<"search">>,
                                     <<"tree">>, <<"files">>, <<"reset">>, <<"help">> }
                        THEN Head(cmd) ELSE "unknown"
        /\ snap' = IF cmd = <<"reset">> THEN [snap EXCEPT !.reset = TRUE] ELSE snap
        /\ UNCHANGED cycleLog

\* CodeAssistant.handleCommand, and the loop's break on 'exit'
handleCommand(command) ==
    LET parts == SplitOn(Tail(command), SPACE)
        cmd == Head(parts)
        args == JoinWith(Tail(parts), SPACE)
    IN  /\ IF cmd \in { <<"exit">>, <<"quit">> }
           THEN pc' = "exited" /\ UNCHANGED <<messages, accessLog, untrustedOps>>
           ELSE /\ pc' = "awaiting"
                /\ CASE cmd = <<"read">> -> readFile(args)
                     [] cmd = <<"search">> -> searchFiles(args)
                     [] cmd \in { <<"tree">>, <<"files">> } ->
                            Log({"fs"}) /\ UNCHANGED messages
                     [] cmd = <<"reset">> ->
                            messages' = resetMessages(messages) /\ NoLog
                     [] OTHER -> UNCHANGED <<messages, accessLog, untrustedOps>>
        /\ IF cmd = <<"read">>
           THEN TRUE
           ELSE last' = IF cmd \in { <<"exit">>, <<"quit">>, <<"clear">>, <<"write">>, <<"search">>,
                                     <<"tree">>, <<"files">>, <<"reset">>, <<"help">> }
                        THEN Head(cmd) ELSE "unknown"
        /\ snap' = IF cmd = <<"reset">> THEN [snap EXCEPT !.reset = TRUE] ELSE snap
        /\ UNCHANGED cycleLog

\* ReadLine with the test for an empty line made before the trim
ReadLineUntrimmedTest ==
    /\ pc = "awaiting"
    /\ inputs < MaxInputs
    /\ inputs' = inputs + 1
    /\ \E line \in InputLines :
         LET trimmed == Trim(line) IN
         /\ tally' = [tally EXCEPT !.line = line]
         /\ IF line = <<>>
            THEN /\ last' = "blank"
                 /\ UNCHANGED <<messages, pc, accessLog, untrustedOps, snap, cycleLog>>
            ELSE IF trimmed # <<>> /\ Head(trimmed) = "/"
                 THEN handleCommand(trimmed)
                 ELSE /\ StartProcessMessage(messages, trimmed)
                      /\ last' = "sent"
                      /\ NoLog
    /\ UNCHANGED <<notCodeVars, hostVars, filesModified, commandsExecuted,
                   turnVars, mode, exitCode>>

\* one iteration of the interactive loop, up to its first await after the prompt
ReadLine ==
    /\ pc = "awaiting"
    /\ inputs < MaxInputs
    /\ inputs' = inputs + 1
    /\ \E line \in InputLines :
         LET trimmed == Trim(line) IN
         /\ tally' = [tally EXCEPT !.line = line]
         /\ IF trimmed = <<>>
            THEN /\ last' = "blank"
                 /\ UNCHANGED <<messages, pc, accessLog, untrustedOps, snap, cycleLog>>
            ELSE IF Head(trimmed) = "/"
                 THEN handleCommand(trimmed)
                 ELSE /\ StartProcessMessage(messages, trimmed)
                      /\ last' = "sent"
                      /\ NoLog
    /\ UNCHANGED <<notCodeVars, hostVars, filesModified, commandsExecuted,
                   turnVars, mode, exitCode>>

\* the prompt throws ExitPromptError: goodbye, break
PromptClosed ==
    /\ pc = "awaiting"
    /\ pc' = "exited"
    /\ last' = "promptClosed"
    /\ UNCHANGED <<notCodeVars, tally, hostVars, sessionVars, turnVars, mode,
                   exitCode, inputs, accessLog, untrustedOps, cycleLog, snap>>

\* processMessage: the model call returns; reply and the two extractions
ModelReply ==
    /\ pc = "modelCall"
    /\ Log({"model"})
    /\ \E content \in Replies :
         LET r == replyOf(content) IN
         /\ rawReply' = content
         /\ reply' = r
         /\ fileWrites' = extractFileWrites(r)
         /\ commands' = extractCommands(r)
    /\ pc' = "tools"
    /\ last' = "replied"
    /\ tally' = [tally EXCEPT !.modelCalls = @ + 1]
    /\ UNCHANGED <<notCodeVars, hostVars, sessionVars, mode, exitCode,
                   inputs, cycleLog, snap>>

\* ModelFail with the error kept in the history as an assistant message
ModelFailRecorded ==
    /\ pc = "modelCall"
    /\ Log({"model"})
    /\ messages' = Append(messages, Msg("assistant", <<"Failed to get response">>))
    /\ IF mode = "task"
       THEN pc' = "exited" /\ exitCode' = 1
       ELSE pc' = "awaiting" /\ UNCHANGED exitCode
    /\ last' = "modelFailed"
    /\ tally' = [tally EXCEPT !.modelCalls = @ + 1]
    /\ UNCHANGED <<notCodeVars, hostVars, filesModified,
                   commandsExecuted, turnVars, mode, inputs, cycleLog, snap>>

\* ModelFail with the user message taken back out of the history
ModelFailRollsBack ==
    /\ pc = "modelCall"
    /\ Log({"model"})
    /\ messages' = snap.messages
    /\ IF mode = "task"
       THEN pc' = "exited" /\ exitCode' = 1
       ELSE pc' = "awaiting" /\ UNCHANGED exitCode
    /\ last' = "modelFailed"
    /\ tally' = [tally EXCEPT !.modelCalls = @ + 1]
    /\ UNCHANGED <<notCodeVars, hostVars, filesModified,
                   commandsExecuted, turnVars, mode, inputs, cycleLog, snap>>

\* ModelFail with the error leaving the interactive loop as it leaves
\* executeTask
ModelFailUnwinds ==
    /\ pc = "modelCall"
    /\ Log({"model"})
    /\ pc' = "exited" /\ exitCode' = 1
    /\ last' = "modelFailed"
    /\ tally' = [tally EXCEPT !.modelCalls = @ + 1]
    /\ UNCHANGED <<notCodeVars, hostVars, sessionVars, turnVars, mode,
                   inputs, cycleLog, snap>>

\* processMessage: the model call throws.  The interactive loop prints the
\* error and goes on; executeTask lets it reach codeCommand, which exits
ModelFail ==
    /\ pc = "modelCall"
    /\ Log({"model"})
    /\ IF mode = "task"
       THEN pc' = "exited" /\ exitCode' = 1
       ELSE pc' = "awaiting" /\ UNCHANGED exitCode
    /\ last' = "modelFailed"
    /\ tally' = [tally EXCEPT !.modelCalls = @ + 1]
    /\ UNCHANGED <<notCodeVars, hostVars, sessionVars, turnVars, mode,
                   inputs, cycleLog, snap>>

\* nextTool with the two loops in the other order
nextToolCommandsFirst(writes, cmds) ==
    IF cmds # <<>> THEN "command"
    ELSE IF writes # <<>> THEN "write"
    ELSE "commit"

\* processMessage after the extractions: all file writes, then all commands,
\* then the assistant message
nextTool(writes, cmds) ==
    IF writes # <<>> THEN "write"
    ELSE IF cmds # <<>> THEN "command"
    ELSE "commit"

\* WriteStep without the catch: a failed write ends processMessage
WriteStepThrows ==
    /\ pc = "tools"
    /\ fileWrites # <<>>
    /\ Log({"fs"})
    /\ LET w == Head(fileWrites) IN
       \E r \in fsWriteFile(workspacePath, files, w.path, w.content) :
         /\ files' = r.files
         /\ filesModified' = IF r.ok THEN filesModified \cup {w.path} ELSE filesModified
         /\ messages' = IF r.ok
                        THEN Append(messages, Msg("system", <<"File written: ">> \o w.path))
                        ELSE messages
         /\ cycleLog' = IF r.ok
                        THEN Append(cycleLog, [op |-> "write", ok |-> TRUE, what |-> w.path,
                                               at |-> Len(messages) + 1])
                        ELSE cycleLog
         /\ last' = IF r.ok THEN "wrote" ELSE "writeFailed"
         /\ fileWrites' = IF r.ok THEN Tail(fileWrites) ELSE <<>>
         /\ commands' = IF r.ok THEN commands ELSE <<>>
         /\ pc' = IF r.ok THEN "tools" ELSE IF mode = "task" THEN "exited" ELSE "awaiting"
         /\ exitCode' = IF ~r.ok /\ mode = "task" THEN 1 ELSE exitCode
    /\ UNCHANGED <<notCodeVars, tally, hasApiKey, trustedWorkspaces,
                   workspacePath, commandsExecuted, rawReply, reply, mode, inputs, snap>>

\* CodeAssistant.writeFile for the next file write
WriteStep ==
    /\ pc = "tools"
    /\ nextTool(fileWrites, commands) = "write"
    /\ fileWrites # <<>>
    /\ Log({"fs"})
    /\ LET w == Head(fileWrites) IN
       \E r \in fsWriteFile(workspacePath, files, w.path, w.content) :
         /\ files' = r.files
         /\ filesModified' = IF r.ok THEN filesModified \cup {w.path} ELSE filesModified
         /\ messages' = Append(messages, Msg("system",
                IF r.ok THEN <<"File written: ">> \o w.path
                ELSE <<"File write failed for ">> \o w.path \o <<": ", r.error>>))
         /\ cycleLog' = Append(cycleLog, [op |-> "write", ok |-> r.ok, what |-> w.path,
                                          at |-> Len(messages) + 1])
         /\ last' = IF r.ok THEN "wrote" ELSE "writeFailed"
    /\ fileWrites' = Tail(fileWrites)
    /\ UNCHANGED <<notCodeVars, tally, hasApiKey, trustedWorkspaces, workspacePath,
                   commandsExecuted, rawReply, reply, commands, runVars, snap>>

CAT_A == <<"cat a">>

\* maxBuffer of execSync, in bytes
MAX_BUFFER == 10 * 1024 * 1024

ENOBUFS == <<"spawnSync /bin/sh ENOBUFS">>
ENOENT_SH == <<"spawnSync /bin/sh ENOENT">>

\* what running a command can come to: whether /bin/sh was spawned, the exit
\* status, what the child wrote to stdout (and how many bytes) and to stderr
ChildRuns(command, workingDirectory, fs) ==
    IF command = CAT_A
    THEN LET target == PathResolve(workingDirectory, <<"a">>) IN
         IF target \in DOMAIN fs
         THEN { [launched |-> TRUE, status |-> 0, stdout |-> Utf8Decode(fs[target]),
                 bytes |-> Len(fs[target]), stderr |-> <<>>] }
         ELSE { [launched |-> TRUE, status |-> 1, stdout |-> <<>>, bytes |-> 0,
                 stderr |-> <<"cat: a: No such file or directory">>] }
    ELSE { [launched |-> TRUE, status |-> 0, stdout |-> <<KILO, "out">>, bytes |-> 1003,
            stderr |-> <<>>],
           [launched |-> TRUE, status |-> 0, stdout |-> <<"out ...">>,
            bytes |-> MAX_BUFFER + 1, stderr |-> <<>>],
           [launched |-> TRUE, status |-> 1, stdout |-> <<>>, bytes |-> 0,
            stderr |-> <<KILO, "err">>],
           [launched |-> TRUE, status |-> 1, stdout |-> <<>>, bytes |-> 0, stderr |-> <<>>],
           [launched |-> FALSE, status |-> 0, stdout |-> <<>>, bytes |-> 0, stderr |-> <<>>] }

\* execSync for one run of the child: the output it returns, or the error it
\* throws with its stderr and message
execResult(command, child) ==
    IF ~child.launched
    THEN [ok |-> FALSE, output |-> <<>>, stderr |-> <<>>, message |-> ENOENT_SH,
          child |-> child]
    ELSE IF child.bytes > MAX_BUFFER
    THEN [ok |-> FALSE, output |-> <<>>, stderr |-> child.stderr, message |-> ENOBUFS,
          child |-> child]
    ELSE IF child.status # 0
    THEN [ok |-> FALSE, output |-> <<>>, stderr |-> child.stderr,
          message |-> <<"Command failed: ">> \o command
                      \o (IF child.stderr # <<>> THEN <<NEWLINE>> \o child.stderr ELSE <<>>),
          child |-> child]
    ELSE [ok |-> TRUE, output |-> child.stdout, stderr |-> child.stderr, message |-> <<>>,
          child |-> child]

\* execSync(command): what it can return or throw
execSync(command, workingDirectory, fs) ==
    { execResult(command, child) : child \in ChildRuns(command, workingDirectory, fs) }

\* errorOutputOf with the error's message alone
errorOutputMessageOnly(error) == error.message

\* executeCommand's errorOutput for the error execSync threw
errorOutputOf(error) == IF error.stderr # <<>> THEN error.stderr ELSE error.message

\* executeCommand's isReadCommand: the command starts with Get-Content or
\* with 'cat ', or holds Get-ChildItem and no '| Select-Object'
isReadCommand(command) ==
    \/ command # <<>> /\ Head(command) \in {"Get-Content", "cat a"}
    \/ /\ \E k \in 1..Len(command) : command[k] = "Get-ChildItem"
       /\ \A k \in 1..Len(command) : command[k] # "| Select-Object"

\* output.split('\n')
RECURSIVE SplitLines(_)
SplitLines(str) ==
    IF \A k \in 1..Len(str) : str[k] # NEWLINE
    THEN <<str>>
    ELSE LET n == CHOOSE k \in 1..Len(str) :
                      str[k] = NEWLINE /\ \A m \in 1..(k - 1) : str[m] # NEWLINE
         IN <<SubSeq(str, 1, n - 1)>> \o SplitLines(SubSeq(str, n + 1, Len(str)))

\* executeCommand with the output cut to the context budget in the command
\* history as it is in the message
executeCommandStoresSliced(command, r, isRead) ==
    [history |-> IF r.ok
                 THEN <<[command |-> command, output |-> Slice(r.output, ContextBudget)]>>
                 ELSE <<>>,
     message |-> Msg("system",
                IF r.ok
                THEN <<"Command executed: ">> \o command \o <<NEWLINE, "Output: ">>
                     \o Slice(r.output, ContextBudget)
                ELSE <<"Command failed: ">> \o command \o <<NEWLINE, "Error: ">>
                     \o errorOutputOf(r)),
     echo |-> (IF isRead THEN <<>> ELSE << <<"Running: ">> \o command >>)
              \o (IF ~r.ok
                  THEN << <<"Command failed:">>, errorOutputOf(r) >>
                  ELSE IF isRead THEN <<>>
                  ELSE IF Trim(r.output) # <<>>
                  THEN SelectSeq(SplitLines(r.output), LAMBDA l : Trim(l) # <<>>)
                  ELSE << <<"Done">> >>)]

\* executeCommand with a read-only command left out of the command history
executeCommandHidesReads(command, r, isRead) ==
    [history |-> IF r.ok /\ ~isRead
                 THEN <<[command |-> command, output |-> r.output]>>
                 ELSE <<>>,
     message |-> Msg("system",
                IF r.ok
                THEN <<"Command executed: ">> \o command \o <<NEWLINE, "Output: ">>
                     \o Slice(r.output, ContextBudget)
                ELSE <<"Command failed: ">> \o command \o <<NEWLINE, "Error: ">>
                     \o errorOutputOf(r)),
     echo |-> (IF isRead THEN <<>> ELSE << <<"Running: ">> \o command >>)
              \o (IF ~r.ok
                  THEN << <<"Command failed:">>, errorOutputOf(r) >>
                  ELSE IF isRead THEN <<>>
                  ELSE IF Trim(r.output) # <<>>
                  THEN SelectSeq(SplitLines(r.output), LAMBDA l : Trim(l) # <<>>)
                  ELSE << <<"Done">> >>)]

\* CodeAssistant.executeCommand once execSync has returned or thrown r, the
\* command being classified read-only or not: what is pushed on
\* commandsExecuted, the message pushed on messages, and the lines printed
executeCommand(command, r, isRead) ==
    [history |-> IF r.ok
                 THEN <<[command |-> command, output |-> r.output]>>
                 ELSE <<>>,
     message |-> Msg("system",
                IF r.ok
                THEN <<"Command executed: ">> \o command \o <<NEWLINE, "Output: ">>
                     \o Slice(r.output, ContextBudget)
                ELSE <<"Command failed: ">> \o command \o <<NEWLINE, "Error: ">>
                     \o errorOutputOf(r)),
     echo |-> (IF isRead THEN <<>> ELSE << <<"Running: ">> \o command >>)
              \o (IF ~r.ok
                  THEN << <<"Command failed:">>, errorOutputOf(r) >>
                  ELSE IF isRead THEN <<>>
                  ELSE IF Trim(r.output) # <<>>
                  THEN SelectSeq(SplitLines(r.output), LAMBDA l : Trim(l) # <<>>)
                  ELSE << <<"Done">> >>)]

\* CommandStep with nothing put in the history for a command that failed
CommandStepSilentOnFailure ==
    /\ pc = "tools"
    /\ nextTool(fileWrites, commands) = "command"
    /\ commands # <<>>
    /\ Log({"cmd"})
    /\ LET command == Head(commands) IN
       \E r \in execSync(command, workspacePath, files) :
         /\ commandsExecuted' = IF r.ok
                                THEN Append(commandsExecuted,
                                            [command |-> command, output |-> r.output])
                                ELSE commandsExecuted
         /\ messages' = IF r.ok
                        THEN Append(messages, Msg("system",
                                 <<"Command executed: ">> \o command \o <<NEWLINE, "Output: ">>
                                 \o Slice(r.output, ContextBudget)))
                        ELSE messages
         /\ cycleLog' = Append(cycleLog, [op |-> "command", ok |-> r.ok, what |-> command,
                                          at |-> Len(messages'), result |-> r,
                                          echo |-> <<>>])
         /\ last' = IF r.ok THEN "ran" ELSE "commandFailed"
    /\ commands' = Tail(commands)
    /\ UNCHANGED <<notCodeVars, tally, hostVars, filesModified, rawReply, reply,
                   fileWrites, runVars, snap>>

\* CodeAssistant.executeCommand for the next command
CommandStep ==
    /\ pc = "tools"
    /\ nextTool(fileWrites, commands) = "command"
    /\ commands # <<>>
    /\ Log({"cmd"})
    /\ LET command == Head(commands) IN
       \E r \in execSync(command, workspacePath, files) :
         LET done == executeCommand(command, r, isReadCommand(command)) IN
         /\ commandsExecuted' = commandsExecuted \o done.history
         /\ messages' = Append(messages, done.message)
         /\ cycleLog' = Append(cycleLog, [op |-> "command", ok |-> r.ok, what |-> command,
                                          at |-> Len(messages) + 1, result |-> r,
                                          echo |-> done.echo])
         /\ last' = IF r.ok THEN "ran" ELSE "commandFailed"
    /\ commands' = Tail(commands)
    /\ UNCHANGED <<notCodeVars, tally, hostVars, filesModified, rawReply, reply,
                   fileWrites, runVars, snap>>

\* Commit with executeTask falling into the interactive loop
CommitToLoop ==
    /\ pc = "tools"
    /\ nextTool(fileWrites, commands) = "commit"
    /\ messages' = Append(messages, Msg("assistant", reply))
    /\ cycleLog' = Append(cycleLog, [op |-> "assistant", ok |-> TRUE, what |-> <<>>,
                                     at |-> Len(messages) + 1])
    /\ pc' = "awaiting"
    /\ last' = "committed"
    /\ tally' = [tally EXCEPT !.cycles = @ + 1]
    /\ UNCHANGED <<notCodeVars, hostVars, filesModified, commandsExecuted,
                   turnVars, mode, exitCode, inputs, accessLog, untrustedOps, snap>>

\* processMessage: the assistant message, and the return to the caller
Commit ==
    /\ pc = "tools"
    /\ nextTool(fileWrites, commands) = "commit"
    /\ messages' = Append(messages, Msg("assistant", reply))
    /\ cycleLog' = Append(cycleLog, [op |-> "assistant", ok |-> TRUE, what |-> <<>>,
                                     at |-> Len(messages) + 1])
    /\ pc' = IF mode = "task" THEN "summary" ELSE "awaiting"
    /\ last' = "committed"
    /\ tally' = [tally EXCEPT !.cycles = @ + 1]
    /\ UNCHANGED <<notCodeVars, hostVars, filesModified, commandsExecuted,
                   turnVars, mode, exitCode, inputs, accessLog, untrustedOps, snap>>

\* executeTask: the summary of files modified and commands run, then the end
Summary ==
    /\ pc = "summary"
    /\ pc' = "exited"
    /\ last' = "summary"
    /\ UNCHANGED <<notCodeVars, tally, hostVars, sessionVars, turnVars, mode,
                   exitCode, inputs, accessLog, untrustedOps, cycleLog, snap>>

\* an interactive session has ended and `megacli code` is run again in the
\* same workspace: the configuration store and the files are what the session
\* before left, the lines typed keep counting, the rest starts afresh
Restart ==
    /\ pc = "exited"
    /\ mode = "interactive"
    /\ pc' = "new" /\ exitCode' = 0
    /\ messages' = <<>> /\ filesModified' = {} /\ commandsExecuted' = <<>>
    /\ rawReply' = <<>> /\ reply' = <<>> /\ fileWrites' = <<>> /\ commands' = <<>>
    /\ accessLog' = {} /\ untrustedOps' = {} /\ cycleLog' = <<>> /\ snap' = NoSnap
    /\ last' = "restarted"
    /\ tally' = [tally EXCEPT !.modelCalls = 0, !.cycles = 0, !.trustChecks = 0,
                              !.line = <<>>]
    /\ UNCHANGED <<notCodeVars, hostVars, mode, inputs>>

\* the filesystems the command can be started on
InitialFiles == {
    EmptyFiles,
    (PathResolve(Workspace, PACKAGE_JSON) :> EMPTY_OBJECT),
    (PathResolve(Workspace, <<"a">>) :> <<"old">>) }

CodeInit ==
    /\ hasApiKey \in { getApiKey(apiKey, env) # "" : apiKey, env \in ApiKeys }
    /\ trustedWorkspaces \in { <<>>, <<Workspace>>, <<OtherWorkspace>> }
    /\ workspacePath = Workspace
    /\ files \in InitialFiles
    /\ mode \in { entryPoint(task) : task \in TaskOptions }
    /\ pc = "new" /\ exitCode = 0 /\ inputs = 0
    /\ messages = <<>> /\ filesModified = {} /\ commandsExecuted = <<>>
    /\ rawReply = <<>> /\ reply = <<>> /\ fileWrites = <<>> /\ commands = <<>>
    /\ accessLog = {} /\ untrustedOps = {} /\ cycleLog = <<>> /\ snap = NoSnap
    /\ last = "none" /\ tally = NoTally

CodeNext ==
    \/ Construct \/ CheckTrust \/ AnswerTrust \/ TrustPromptClosed \/ Analyze
    \/ ReadLine \/ PromptClosed \/ ModelReply \/ ModelFail
    \/ WriteStep \/ CommandStep \/ Commit \/ Summary \/ Restart

-----------------------------------------------------------------------------
(* ModelRegistry *)

GPT5 == "gpt-5"
SONNET == "claude-sonnet-4-5-20250929"

\* MEGALLM_MODELS: the canonical identifiers
ModelIds == {GPT5, SONNET}

\* String.prototype.toLowerCase over the names used here
ToLowerCase(name) == IF name = "Sonnet" THEN "sonnet" ELSE name

\* ModelRegistry.modelsByAlias
ModelByAlias(alias) ==
    CASE alias \in {"gpt5", "gpt-5"} -> GPT5
      [] alias \in {"claude-sonnet", "sonnet"} -> SONNET
      [] OTHER -> ""

\* ModelRegistry.getModel: the id of the model found, "" for undefined
getModel(idOrAlias) ==
    IF idOrAlias \in ModelIds THEN idOrAlias ELSE ModelByAlias(ToLowerCase(idOrAlias))

-----------------------------------------------------------------------------
(* ChatSession *)

DEFAULT_SYSTEM == <<"You are a helpful AI assistant.">>

\* the names the user can give for a model
ModelNames == {GPT5, "Sonnet", "gpt-9"}

\* what the remote model can return as content, and as usage
ChatReplies == { <<>>, <<"hello">> }
Usages == { NoUsage, [prompt |-> 3, completion |-> 2, total |-> 5] }

\* the lines the user can type
ChatInputLines == {
    <<>>, <<SPACE>>, <<"hi">>, <<SPACE, "/", "exit">>,
    <<"/", "exit">>, <<"/", "quit">>, <<"/", "clear">>, <<"/", "models">>,
    <<"/", "help">>, <<"/", "info">>, <<"/", "bogus">>,
    <<"/", "switch", SPACE, "Sonnet">>, <<"/", "switch", SPACE, "gpt-9">>,
    <<"/", "switch", SPACE, GPT5>>, <<"/", "switch">> }

\* chatCommand: the model is resolved, then new ChatSession(...)
ChatConstruct ==
    /\ cPc = "new"
    /\ \E name \in ModelNames :
         LET model == getModel(name) IN
         IF model = ""
         THEN /\ cPc' = "exited" /\ cExitCode' = 1
              /\ UNCHANGED <<cMessages, currentModel>>
         ELSE /\ currentModel' = model
              /\ cMessages' = <<Msg("system", DEFAULT_SYSTEM)>>
              /\ cPc' = "awaiting"
              /\ UNCHANGED cExitCode
    /\ cLast' = "constructed"
    /\ UNCHANGED <<notChatVars, cInputs, sampling, tokenUsage, cSnap>>

\* switchModel with the name given taken as it is
switchModelTakesName(current, modelId) == modelId

\* ChatSession.switchModel: the new currentModel
switchModel(current, modelId) ==
    LET model == getModel(modelId) IN
    IF model = "" THEN current ELSE model

\* Array.prototype.filter by role
RECURSIVE FilterRole(_, _)
FilterRole(msgs, role) ==
    IF msgs = <<>> THEN <<>>
    ELSE (IF Head(msgs).role = role THEN <<Head(msgs)>> ELSE <<>>)
         \o FilterRole(Tail(msgs), role)

\* /clear with the user messages alone dropped
clearMessagesKeepsReplies(msgs) == SelectSeq(msgs, LAMBDA m : m.role # "user")

\* /clear with the whole history dropped
clearMessagesDropsAll(msgs) == <<>>

\* ChatSession.handleCommand, /clear: the messages kept
clearMessages(msgs) == FilterRole(msgs, "system")

\* ChatSession.handleCommand, and the loop's break when it returns true
chatHandleCommand(input) ==
    LET trimmed == Trim(input)
        verb == Tail(trimmed)
    IN  /\ cPc' = IF verb \in { <<"exit">>, <<"quit">> } THEN "exited" ELSE "awaiting"
        /\ cMessages' = IF verb = <<"clear">> THEN clearMessages(cMessages)
                        ELSE cMessages
        /\ currentModel' =
             IF Len(verb) >= 2 /\ SubSeq(verb, 1, 2) = <<"switch", SPACE>>
             THEN switchModel(currentModel, Head(Trim(SubSeq(verb, 3, Len(verb)))))
             ELSE currentModel
        /\ cLast' = IF verb \in { <<"exit">>, <<"quit">>, <<"clear">>, <<"models">>,
                                  <<"help">>, <<"info">> }
                    THEN Head(verb)
                    ELSE IF Head(verb) = "switch" THEN "switch" ELSE "unknown"
        /\ cSnap' = [cSnap EXCEPT !.line = input]
        /\ UNCHANGED tokenUsage

\* one iteration of ChatSession.start, up to its first await after the prompt
ChatReadLine ==
    /\ cPc = "awaiting"
    /\ cInputs < MaxInputs
    /\ cInputs' = cInputs + 1
    /\ \E input \in ChatInputLines :
         IF Trim(input) = <<>>
         THEN /\ cLast' = "blank"
              /\ cSnap' = [cSnap EXCEPT !.line = input]
              /\ UNCHANGED <<cPc, cMessages, currentModel, tokenUsage>>
         ELSE IF Head(input) = "/"
              THEN chatHandleCommand(input)
              ELSE \* sendMessage up to the await of the model call
                   /\ cSnap' = [messages |-> cMessages, tokenUsage |-> tokenUsage,
                                userMessage |-> input, usage |-> NoUsage,
                                line |-> input]
                   /\ cMessages' = Append(cMessages, Msg("user", input))
                   /\ cPc' = "modelCall"
                   /\ cLast' = "sent"
                   /\ UNCHANGED <<currentModel, tokenUsage>>
    /\ UNCHANGED <<notChatVars, cExitCode, sampling>>

\* getResponse with the counters set to the usage of the call
ChatModelReplyOverwrites ==
    /\ cPc = "modelCall"
    /\ \E content \in ChatReplies, usage \in Usages :
         /\ cMessages' = Append(cMessages, Msg("assistant", content))
         /\ tokenUsage' = usage
         /\ cSnap' = [cSnap EXCEPT !.usage = usage]
    /\ cPc' = "awaiting"
    /\ cLast' = "replied"
    /\ UNCHANGED <<notChatVars, cExitCode, cInputs, currentModel, sampling>>

\* getResponse: the model call returns
ChatModelReply ==
    /\ cPc = "modelCall"
    /\ \E content \in ChatReplies, usage \in Usages :
         /\ cMessages' = Append(cMessages, Msg("assistant", content))
         /\ tokenUsage' = [prompt |-> tokenUsage.prompt + usage.prompt,
                           completion |-> tokenUsage.completion + usage.completion,
                           total |-> tokenUsage.total + usage.total]
         /\ cSnap' = [cSnap EXCEPT !.usage = usage]
    /\ cPc' = "awaiting"
    /\ cLast' = "replied"
    /\ UNCHANGED <<notChatVars, cExitCode, cInputs, currentModel, sampling>>

\* getResponse: the model call throws; sendMessage shows the error
ChatModelFail ==
    /\ cPc = "modelCall"
    /\ cPc' = "awaiting"
    /\ cLast' = "modelFailed"
    /\ UNCHANGED <<notChatVars, cExitCode, cInputs, cMessages,
                   currentModel, sampling, tokenUsage, cSnap>>

\* the prompt is force closed, or SIGINT: goodbye, process.exit(0)
ChatPromptClosed ==
    /\ cPc = "awaiting"
    /\ cPc' = "exited"
    /\ cLast' = "promptClosed"
    /\ UNCHANGED <<notChatVars, cExitCode, cInputs, cMessages,
                   currentModel, sampling, tokenUsage, cSnap>>

ChatInit ==
    /\ cPc = "new" /\ cExitCode = 0 /\ cInputs = 0 /\ cMessages = <<>>
    /\ currentModel = ""
    /\ sampling \in { [temperature |-> 7, maxTokens |-> 2048],
                      [temperature |-> 15, maxTokens |-> 1000] }
    /\ tokenUsage = NoUsage /\ cSnap = NoChatSnap /\ cLast = "none"

ChatNext ==
    \/ ChatConstruct \/ ChatReadLine \/ ChatModelReply \/ ChatModelFail
    \/ ChatPromptClosed

-----------------------------------------------------------------------------
(* The command line: `megacli code` or `megacli chat` *)

Init ==
    /\ PathIdle /\ ParseIdle /\ UnitIdle
    /\ \/ CodeInit /\ ChatIdle
       \/ ChatInit /\ CodeIdle

Next == CodeNext \/ ChatNext

Spec == Init /\ [][Next]_vars

-----------------------------------------------------------------------------
(* The accessor's resolve over bounded roots and path arguments *)

\* working directories: new FileSystemManager(dir) stores path.resolve(dir)
Roots == { <<"/", "w">>, <<"/", "w", "/", "a">>, <<"/">>, <<"/", "e">>,
           <<"/", "e", "t", "c">> }

ArgSegs == { DOT, DOTDOT, <<"a">>, <<"w">>, <<"w", "x">> }

RECURSIVE JoinRel(_)
JoinRel(segs) ==
    IF Len(segs) = 1 THEN Head(segs) ELSE Head(segs) \o <<SEP>> \o JoinRel(Tail(segs))

\* relative arguments of 1..MaxArgSegs segments, and the same made absolute
RelArgs == UNION { { JoinRel(t) : t \in [1..n -> ArgSegs] } : n \in 1..MaxArgSegs }
\* 'a/b/../c' and '../../etc/passwd'
A_B_UP_C == <<"a", "/", "b", "/", ".", ".", "/", "c">>
UP_UP_ETC_PASSWD == <<".", ".", "/", ".", ".", "/", "e", "t", "c", "/",
                      "p", "a", "s", "s", "w", "d">>

PathArgs == RelArgs \cup { <<SEP>> \o a : a \in RelArgs } \cup {A_B_UP_C, UP_UP_ETC_PASSWD}

PathInit ==
    /\ pRoot \in Roots
    /\ pArg \in PathArgs
    /\ pOut = NoResult
    /\ ParseIdle
    /\ UnitIdle
    /\ CodeIdle
    /\ ChatIdle

\* one call of validatePath
Validate ==
    /\ pOut = NoResult
    /\ pOut' = validatePath(pRoot, pArg)
    /\ UNCHANGED <<pRoot, pArg, parseVars, unitVars, codeVars, chatVars>>

\* the next call, with another argument
NextArg ==
    /\ pOut # NoResult
    /\ pArg' \in PathArgs
    /\ pOut' = NoResult
    /\ UNCHANGED <<pRoot, parseVars, unitVars, codeVars, chatVars>>

PathNext == Validate \/ NextArg

SpecPath == PathInit /\ [][PathNext]_vars

-----------------------------------------------------------------------------
(* The accessor's read, write and delete over a filesystem of its own *)

\* the path arguments: two spellings of one file, a file below it, the
\* working directory and a sibling directory
FsPaths == { <<"a">>, <<".", "/", "a">>, <<"a", "/", "b">>, <<".">>,
             <<".", ".", "/", "w", "x">>, <<".", ".", "/", "x">> }

\* the content strings
FsContents == { <<"x">>, <<"y", NEWLINE>>, <<"x", LONE_SURROGATE>>, <<REPLACEMENT>> }

FsInit ==
    /\ pRoot = Workspace
    /\ pArg = <<>> /\ pOut = NoResult
    /\ fFiles \in { EmptyFiles, (<<"/", "w", "/", "a">> :> <<"old">>) }
    /\ fOp = NoFsOp
    /\ fWritten = <<>>
    /\ sOut = NotStripped /\ trustOp = NoTrustOp
    /\ ParseIdle
    /\ CodeIdle
    /\ ChatIdle

\* one call of FileSystemManager.writeFile
FsWrite ==
    /\ fOp.n < MaxFsOps
    /\ \E filePath \in FsPaths, content \in FsContents :
      \E r \in fsWriteFile(pRoot, fFiles, filePath, content) :
        LET v == validatePath(pRoot, filePath) IN
        /\ fFiles' = r.files
        /\ fOp' = [n |-> fOp.n + 1, op |-> "write", path |-> filePath, ok |-> r.ok,
                   content |-> content, error |-> <<r.error>>,
                   touched |-> fsTouched("write", pRoot, filePath)]
        /\ fWritten' = IF v.ok
                       THEN (v.path :> [ok |-> r.ok, content |-> content,
                                        overwrote |-> r.ok /\ v.path \in DOMAIN fFiles
                                                      /\ fFiles[v.path] # r.files[v.path]])
                            @@ fWritten
                       ELSE fWritten
        /\ UNCHANGED <<pRoot, pArg, pOut, parseVars, sOut, trustOp, codeVars, chatVars>>

\* one call of FileSystemManager.readFile
FsRead ==
    /\ fOp.n < MaxFsOps
    /\ \E filePath \in FsPaths :
      \E r \in fsReadFile(pRoot, fFiles, filePath) :
        /\ fOp' = [n |-> fOp.n + 1, op |-> "read", path |-> filePath, ok |-> r.ok,
                   content |-> r.content, error |-> r.error,
                   touched |-> fsTouched("read", pRoot, filePath)]
        /\ UNCHANGED <<pRoot, pArg, pOut, parseVars, sOut, fFiles, fWritten, trustOp,
                       codeVars, chatVars>>

\* one call of FileSystemManager.deleteFile
FsDelete ==
    /\ fOp.n < MaxFsOps
    /\ \E filePath \in FsPaths :
      \E r \in fsDeleteFile(pRoot, fFiles, filePath) :
        LET v == validatePath(pRoot, filePath) IN
        /\ fFiles' = r.files
        /\ fOp' = [n |-> fOp.n + 1, op |-> "delete", path |-> filePath, ok |-> r.ok,
                   content |-> <<>>, error |-> <<r.error>>,
                   touched |-> fsTouched("delete", pRoot, filePath)]
        /\ fWritten' = IF r.ok THEN [f \in DOMAIN fWritten \ {v.path} |-> fWritten[f]]
                       ELSE fWritten
        /\ UNCHANGED <<pRoot, pArg, pOut, parseVars, sOut, trustOp, codeVars, chatVars>>

\* one call of FileSystemManager.exists
FsExists ==
    /\ fOp.n < MaxFsOps
    /\ \E filePath \in FsPaths :
      \E r \in fsExists(pRoot, fFiles, filePath) :
        /\ fOp' = [n |-> fOp.n + 1, op |-> "exists", path |-> filePath, ok |-> ~r.threw,
                   content |-> <<>>, error |-> r.error, value |-> r.value]
        /\ UNCHANGED <<pRoot, pArg, pOut, parseVars, sOut, fFiles, fWritten, trustOp,
                       codeVars, chatVars>>

FsNext == FsWrite \/ FsRead \/ FsDelete \/ FsExists

SpecFs == FsInit /\ [][FsNext]_vars

-----------------------------------------------------------------------------
(* The accessor's listing and search over filesystems that stay as they are *)

\* the files there can be: three below the working directory, one beside it
ScanFiles ==
    (<<"/", "w", "/", "a">> :> <<"old">>) @@ (<<"/", "w", "/", "c">> :> <<"x">>)
    @@ (<<"/", "w", "/", "d", "/", "e">> :> <<"y", NEWLINE, "x", "x">>)
    @@ (<<"/", "o">> :> <<"x">>)

ScanInit ==
    /\ pRoot = Workspace
    /\ pArg = <<>> /\ pOut = NoResult
    /\ fFiles \in { [f \in D |-> ScanFiles[f]] : D \in SUBSET DOMAIN ScanFiles }
    /\ fOp = NoFsOp
    /\ fWritten = <<>>
    /\ sOut = NotStripped /\ trustOp = NoTrustOp
    /\ ParseIdle
    /\ CodeIdle
    /\ ChatIdle

\* the paths on which the filesystem refuses stat and read: none, or one file
BlockedSets(fs) == {{}} \cup { {f} : f \in DOMAIN fs }

\* the texts searched for: a word, nothing, and metacharacters
SearchTexts == { <<"x">>, <<>>, <<".">>, <<"*">> }

\* one call of FileSystemManager.listDirectory
FsList ==
    /\ fOp.n < MaxFsOps
    /\ \E dirPath \in FsPaths \cup {<<"d">>}, blocked \in BlockedSets(fFiles) :
        LET r == fsListDirectory(pRoot, fFiles, dirPath, blocked) IN
        /\ fOp' = [n |-> fOp.n + 1, op |-> "list", path |-> dirPath, ok |-> r.ok,
                   content |-> <<>>, error |-> <<r.error>>, names |-> r.names,
                   entries |-> r.entries, blocked |-> blocked,
                   touched |-> fsTouched("list", pRoot, dirPath)]
        /\ UNCHANGED <<pRoot, pArg, pOut, parseVars, sOut, fFiles, fWritten, trustOp,
                       codeVars, chatVars>>

\* one call of FileSystemManager.searchInFiles
FsSearch ==
    /\ fOp.n < MaxFsOps
    /\ \E pattern \in {GLOB_ALL, GLOB_UP_ALL}, searchText \in SearchTexts,
          blocked \in BlockedSets(fFiles) :
        LET r == fsSearchInFiles(pRoot, fFiles, pattern, searchText, blocked) IN
        /\ fOp' = [n |-> fOp.n + 1, op |-> "search", path |-> <<pattern>>,
                   ok |-> r.returned /\ ~r.threw, content |-> searchText,
                   error |-> <<>>, found |-> r.found, results |-> r.results,
                   blocked |-> blocked, returned |-> r.returned]
        /\ UNCHANGED <<pRoot, pArg, pOut, parseVars, sOut, fFiles, fWritten, trustOp,
                       codeVars, chatVars>>

ScanNext == FsList \/ FsSearch

SpecScan == ScanInit /\ [][ScanNext]_vars

-----------------------------------------------------------------------------
(* Every path-taking operation of the accessor over one filesystem *)

\* one call of FileSystemManager.getFileInfo
FsGetFileInfo ==
    /\ fOp.n < MaxFsOps
    /\ \E filePath \in FsPaths :
        LET r == fsGetFileInfo(pRoot, fFiles, filePath, {}) IN
        /\ fOp' = [n |-> fOp.n + 1, op |-> "info", path |-> filePath, ok |-> r.ok,
                   content |-> <<>>, error |-> <<r.error>>, info |-> r.info,
                   touched |-> fsTouched("info", pRoot, filePath)]
        /\ UNCHANGED <<pRoot, pArg, pOut, parseVars, sOut, fFiles, fWritten, trustOp,
                       codeVars, chatVars>>

\* one call of FileSystemManager.createBackup
FsCreateBackup ==
    /\ fOp.n < MaxFsOps
    /\ \E filePath \in FsPaths :
      \E r \in fsCreateBackup(pRoot, fFiles, filePath) :
        /\ fFiles' = r.files
        /\ fOp' = [n |-> fOp.n + 1, op |-> "backup", path |-> filePath, ok |-> r.ok,
                   content |-> r.path, error |-> r.error,
                   touched |-> fsTouched("backup", pRoot, filePath)]
        /\ UNCHANGED <<pRoot, pArg, pOut, parseVars, sOut, fWritten, trustOp,
                       codeVars, chatVars>>

\* the content written and the entries that cannot be inspected play no part
\* in the validation of a path: one content, every entry inspectable
GuardWrite == FsWrite /\ fOp'.content = <<"x">>

GuardList == FsList /\ fOp'.blocked = {}

GuardNext == FsRead \/ GuardWrite \/ FsGetFileInfo \/ GuardList \/ FsCreateBackup \/ FsDelete

SpecGuard == FsInit /\ [][GuardNext]_vars

-----------------------------------------------------------------------------
(* ConfigManager's trusted workspaces over a configuration of its own *)

\* the workspace paths passed to the store: two directories, a directory
\* below the first, and the first spelled with a trailing separator
TrustPaths == { Workspace, OtherWorkspace, <<"/", "w", "/", "a">>, <<"/", "w", "/">> }

\* CONFIG_DEFAULTS.trustedWorkspaces
DEFAULT_TRUSTED == <<>>

TrustInit ==
    /\ PathIdle
    /\ ParseIdle
    /\ UnitIdle
    /\ ChatIdle
    /\ hasApiKey = FALSE /\ workspacePath = <<"/">>
    /\ trustedWorkspaces \in { DEFAULT_TRUSTED, <<OtherWorkspace>> }
    /\ files = EmptyFiles /\ mode = "none" /\ pc = "idle" /\ exitCode = 0 /\ inputs = 0
    /\ messages = <<>> /\ filesModified = {} /\ commandsExecuted = <<>>
    /\ rawReply = <<>> /\ reply = <<>> /\ fileWrites = <<>> /\ commands = <<>>
    /\ accessLog = {} /\ untrustedOps = {} /\ cycleLog = <<>> /\ snap = NoSnap
    /\ last = "none" /\ tally = NoTally

\* what a call on the trusted set leaves alone
notTrustVars == <<pathVars, parseVars, sOut, fFiles, fOp, fWritten, hasApiKey,
                  workspacePath, files, sessionVars, turnVars, runVars, historyVars,
                  chatVars>>

\* one call of ConfigManager.trustWorkspace
TrustCall ==
    \E p \in TrustPaths :
        /\ trustedWorkspaces' = trustWorkspace(trustedWorkspaces, p)
        /\ trustOp' = [op |-> "trust", path |-> p, before |-> trustedWorkspaces,
                       result |-> FALSE, since |-> trustOp.since \cup {p}]
        /\ UNCHANGED notTrustVars

\* one call of ConfigManager.isWorkspaceTrusted
IsTrustedCall ==
    \E p \in TrustPaths :
        /\ trustOp' = [op |-> "isTrusted", path |-> p, before |-> trustedWorkspaces,
                       result |-> isWorkspaceTrusted(trustedWorkspaces, p),
                       since |-> trustOp.since]
        /\ UNCHANGED <<notTrustVars, trustedWorkspaces>>

\* one call of ConfigManager.reset: config.clear() puts the defaults back
ConfigReset ==
    /\ trustedWorkspaces' = DEFAULT_TRUSTED
    /\ trustOp' = [op |-> "reset", path |-> <<>>, before |-> trustedWorkspaces,
                   result |-> FALSE, since |-> {}]
    /\ UNCHANGED notTrustVars

TrustNext == TrustCall \/ IsTrustedCall \/ ConfigReset

SpecTrust == TrustInit /\ [][TrustNext]_vars

-----------------------------------------------------------------------------
(* Properties *)

\* C1: no file accessor operation and no command execution is performed
\* while process.cwd() is not in the trusted set, over both entry points
C1_NoToolsWhileUntrusted == untrustedOps \cap {"fs", "cmd"} = {}

\* C2: after 'no' at the trust prompt of an interactive session the session
\* has ended, no file accessor call, model call or command has been made, and
\* the answer leaves the persisted trusted set as it was
C2_DeclineEndsSession ==
    /\ [](last = "declined" =>
            /\ pc = "exited"
            /\ accessLog = {}
            /\ filesModified = {} /\ commandsExecuted = <<>>
            /\ ~isWorkspaceTrusted(trustedWorkspaces, workspacePath))
    /\ [][last' = "declined" => trustedWorkspaces' = trustedWorkspaces /\ files' = files]_vars

\* the user has declined in a workspace beside which another one is trusted
C2_Witness ==
    /\ last = "declined" /\ mode = "interactive"
    /\ trustedWorkspaces = <<OtherWorkspace>>

\* the directory segments of a normalised absolute path
DirSegs(p) == NormalizeOnto(<<>>, Split(p))

\* p is root itself or lies in the directory root
Inside(root, p) ==
    LET rs == DirSegs(root)
        ps == DirSegs(p)
    IN  Len(ps) >= Len(rs) /\ SubSeq(ps, 1, Len(rs)) = rs

\* C3: validatePath returns a path only when the resolved path is the root
\* or lies inside it; every other argument fails with AccessDenied
C3_ResolveConfined ==
    pOut # NoResult =>
        /\ pOut.ok => Inside(pRoot, pOut.path)
        /\ ~pOut.ok => pOut.error = ACCESS_DENIED /\ ~Inside(pRoot, PathResolve(pRoot, pArg))

\* the events of the current cycle with the given op
EventsOf(op) == { i \in 1..Len(cycleLog) : cycleLog[i].op = op }

\* the write and command intents of the reply in hand
ReplyWrites == extractFileWrites(reply)
ReplyCommands == extractCommands(reply)

\* C4: in one response-handling cycle every file write has finished before
\* the first command starts, and every write and command has finished, its
\* outcome message injected, before the assistant message is appended; a
\* command that reads a file written in the cycle sees the written content
C4_WritesThenCommandsThenAssistant ==
    (pc = "tools" \/ last = "committed") =>
        /\ \A i \in EventsOf("command") :
             /\ \A j \in EventsOf("write") : j < i
             /\ Cardinality(EventsOf("write")) = Len(ReplyWrites)
        /\ \A i \in EventsOf("write") \cup EventsOf("command") :
             /\ cycleLog[i].at = Len(snap.messages) + 1 + i
             /\ messages[cycleLog[i].at].role = "system"
        /\ \A i \in EventsOf("assistant") :
             /\ i = Len(cycleLog)
             /\ Cardinality(EventsOf("write")) = Len(ReplyWrites)
             /\ Cardinality(EventsOf("command")) = Len(ReplyCommands)
             /\ cycleLog[i].at = Len(messages)
             /\ \A j \in 1..(i - 1) : cycleLog[j].at < cycleLog[i].at
             /\ messages[Len(messages)] = Msg("assistant", reply)
        /\ \A i \in EventsOf("command") :
             LET wrote == { j \in EventsOf("write") :
                               cycleLog[j].ok /\ cycleLog[j].what = <<"a">> }
             IN  (cycleLog[i].ok /\ cycleLog[i].what = CAT_A /\ wrote # {})
                 => LET j == CHOOSE k \in wrote : \A m \in wrote : m <= k IN
                    messages[cycleLog[i].at].content =
                        <<"Command executed: ">> \o CAT_A \o <<NEWLINE, "Output: ">>
                            \o ReplyWrites[j].content

\* a cycle of two writes and two commands is committed, the command tag that
\* reads the file standing before the write tag or the file having old content
C4_Witness ==
    /\ last = "committed"
    /\ Cardinality(EventsOf("write")) = 2
    /\ Cardinality(EventsOf("command")) = 2
    /\ \E j \in EventsOf("write") : cycleLog[j].ok
    /\ snap.files # EmptyFiles

\* the session object exists
Constructed == pc \notin {"idle", "new"} /\ last # "setupFailed"

\* C5: in every state of a coding-assistant session the message sequence is
\* non-empty and its first element is the system message with SYSTEM_PROMPT
C5_SystemPromptFirst ==
    Constructed => /\ Len(messages) >= 1
                   /\ messages[1] = Msg("system", SYSTEM_PROMPT)

\* a second turn with tool outcomes has been committed
C5_Witness ==
    /\ last = "committed" /\ inputs = 2
    /\ Len(cycleLog) >= 3
    /\ Len(messages) >= 8

\* C6: after /reset the message sequence is exactly the one system message
\* with the operating instructions
C6_ResetLeavesSystemPrompt ==
    last = "reset" => /\ Len(messages) = 1
                      /\ messages[1] = Msg("system", SYSTEM_PROMPT)

\* /reset after a turn with injected project context and tool outcomes
C6_Witness ==
    /\ last = "reset"
    /\ Len(snap.messages) = 2
    /\ Len(cycleLog) >= 3

\* C7: after a failed model call the message sequence is the one before the
\* turn plus the turn's user message, no file write or command has run, and
\* the interactive loop awaits input; in the chat session likewise, with the
\* token counters unchanged
C7_FailedCallKeepsUserMessage ==
    /\ last = "modelFailed" =>
         /\ messages = Append(snap.messages, Msg("user", snap.userMessage))
         /\ filesModified = snap.filesModified
         /\ commandsExecuted = snap.commandsExecuted
         /\ files = snap.files
         /\ cycleLog = <<>>
         /\ mode = "interactive" => pc = "awaiting"
    /\ cLast = "modelFailed" =>
         /\ cMessages = Append(cSnap.messages, Msg("user", cSnap.userMessage))
         /\ tokenUsage = cSnap.tokenUsage
         /\ cPc = "awaiting"

\* the model call of a second turn fails, the first turn having run tools
C7_Witness ==
    /\ last = "modelFailed" /\ mode = "interactive"
    /\ commandsExecuted # <<>> /\ filesModified # {}

\* the outcome message of a failed event
FailureMessage(e) ==
    IF e.op = "write" THEN <<"File write failed for ">> \o e.what
    ELSE <<"Command failed: ">> \o e.what

\* C8: a failed file write or command does not stop the cycle: the cycle goes
\* on, every intent of the reply is executed in order, one system message
\* describing each failure is injected, the assistant message is appended and
\* the session does not exit
C8_FailuresStayLocal ==
    /\ last \in {"writeFailed", "commandFailed"} =>
         /\ pc = "tools"
         /\ cycleLog # <<>>
         /\ ~cycleLog[Len(cycleLog)].ok
         /\ cycleLog[Len(cycleLog)].at = Len(messages)
    /\ last = "committed" =>
         /\ [i \in 1..(Len(cycleLog) - 1) |-> cycleLog[i].what]
              = [i \in 1..Len(ReplyWrites) |-> ReplyWrites[i].path] \o ReplyCommands
         /\ \A i \in 1..Len(cycleLog) :
              ~cycleLog[i].ok =>
                  /\ messages[cycleLog[i].at].role = "system"
                  /\ StartsWith(messages[cycleLog[i].at].content,
                                FailureMessage(cycleLog[i]))
         /\ messages[Len(messages)] = Msg("assistant", reply)
         /\ pc = IF mode = "task" THEN "summary" ELSE "awaiting"

\* a cycle is committed in which a write was denied and a command failed,
\* each followed by an intent that succeeded
C8_Witness ==
    /\ last = "committed"
    /\ \E i, j \in 1..Len(cycleLog) :
         /\ cycleLog[i].op = "write" /\ ~cycleLog[i].ok
         /\ cycleLog[j].op = "command" /\ ~cycleLog[j].ok
    /\ \E i \in 1..Len(cycleLog) : cycleLog[i].op = "write" /\ cycleLog[i].ok
    /\ \E i \in 1..Len(cycleLog) : cycleLog[i].op = "command" /\ cycleLog[i].ok

\* the parser recognises no tag in the content
ZeroTags(content) == extractFileWrites(content) = <<>> /\ extractCommands(content) = <<>>

\* the cycle in hand wrote no file and ran no command
NoToolEffects ==
    /\ filesModified = snap.filesModified
    /\ commandsExecuted = snap.commandsExecuted
    /\ files = snap.files
    /\ EventsOf("write") = {} /\ EventsOf("command") = {}

\* C9 as stated: for every reply with zero recognised tags, the empty reply
\* included, the assistant message equals the raw reply and nothing is
\* written or executed
C9_AssistantEqualsRawReply ==
    (last = "committed" /\ ZeroTags(rawReply)) =>
        /\ messages[Len(messages)] = Msg("assistant", rawReply)
        /\ NoToolEffects

\* C9: for every non-empty reply with zero recognised tags the assistant
\* message equals the raw reply; for the empty reply it is 'No response'; in
\* both cases it is the only message added after the user message, and
\* nothing is written or executed
C9_AssistantEqualsReplyOrPlaceholder ==
    (last = "committed" /\ ZeroTags(rawReply)) =>
        /\ messages = snap.messages
                      \o <<Msg("user", snap.userMessage),
                           Msg("assistant", IF rawReply = <<>> THEN NO_RESPONSE ELSE rawReply)>>
        /\ NoToolEffects

\* a reply whose only tag is discarded by the parser is committed after a
\* cycle that modified a file
C9_Witness ==
    /\ last = "committed"
    /\ rawReply = <<CO, SPACE, CC>>
    /\ filesModified # {}

\* every piece of the reply is a well-formed tag or plain text
OnlyWellFormed(pieces) ==
    \A k \in 1..Len(pieces) : pieces[k] \in WellFormedPieces \cup PlainPieces

\* C10: a reply made of N well-formed write_file tags and M well-formed
\* execute_command tags (non-empty path, non-empty command), in any
\* interleaving, yields exactly these N write intents and M command intents,
\* each kind in the order of its tags in the text
C10_ParserCounts ==
    (tOut.done /\ OnlyWellFormed(tPieces)) =>
        /\ tOut.fileWrites = FlatMap(PieceWrites, tPieces)
        /\ tOut.commands = FlatMap(PieceCommands, tPieces)

\* a parsed reply of three tags with a command tag between two write tags,
\* giving two write intents and two different command intents
C10_Witness ==
    /\ tOut.done
    /\ Len(tPieces) = 3
    /\ tPieces[1] \in {WriteA, WriteUpEmpty}
    /\ tPieces[2] \in {CmdLs, CmdCat}
    /\ Len(tOut.fileWrites) = 2
    /\ Len(tOut.commands) = 2
    /\ tOut.commands[1] # tOut.commands[2]

\* the text holds a write_file or an execute_command tag span
HasTagSpan(text) ==
    \E i, j \in 1..Len(text) :
        /\ i < j
        /\ \/ text[i] \in WriteOpen /\ text[j] = WC
           \/ text[i] = CO /\ text[j] = CC

\* C11: for every text the two removals leave no write_file and no
\* execute_command tag span, and applied to their own output they return it
\* unchanged
C11_StripTagsIdempotent ==
    sOut.calls = 2 => /\ ~HasTagSpan(sOut.once)
                      /\ sOut.twice = sOut.once

\* the path the last accessor call resolved
FsTarget == PathResolve(pRoot, fOp.path)

\* a read that succeeded on a path whose last write succeeded, with no
\* delete of the path since
ReadAfterWrite ==
    /\ fOp.op = "read" /\ fOp.ok
    /\ FsTarget \in DOMAIN fWritten
    /\ fWritten[FsTarget].ok

\* the string with every unpaired surrogate replaced by U+FFFD
ToWellFormed(content) ==
    [i \in 1..Len(content) |->
        IF content[i] = LONE_SURROGATE THEN REPLACEMENT ELSE content[i]]

\* C12 as stated: for every accepted path and every content string, a read
\* after a write of the path returns exactly the content of the last write
C12_ReadReturnsLastWrite ==
    ReadAfterWrite => fOp.content = fWritten[FsTarget].content

\* C12: for every accepted path and every content string without unpaired
\* surrogates, a read after a write of the path, with no write or delete of
\* it in between, returns exactly the content of the last write; an unpaired
\* surrogate in the content is read back as U+FFFD
C12_ReadReturnsLastWellFormedWrite ==
    ReadAfterWrite =>
        /\ fOp.content = ToWellFormed(fWritten[FsTarget].content)
        /\ LONE_SURROGATE \notin { fWritten[FsTarget].content[i] :
                                       i \in 1..Len(fWritten[FsTarget].content) }
             => fOp.content = fWritten[FsTarget].content

\* a read through one spelling of a path returns what a write through
\* another spelling put in place of different content
C12_Witness ==
    /\ ReadAfterWrite
    /\ fWritten[FsTarget].overwrote
    /\ fOp.path = <<".", "/", "a">>
    /\ fOp.content = <<"y", NEWLINE>>

\* the child of a command event was spawned, exited with status zero and
\* wrote more to stdout than maxBuffer
Overflowed(e) ==
    /\ e.result.child.launched
    /\ e.result.child.status = 0
    /\ e.result.child.bytes > MAX_BUFFER

\* C13: a command that exits with status zero after writing more output
\* than the cap is reported as a success: it is recorded in commandsExecuted
\* and its outcome message is 'Command executed', not 'Command failed'
C13_OverflowIsSuccess ==
    (pc = "tools" \/ last = "committed") =>
        \A i \in EventsOf("command") :
            Overflowed(cycleLog[i]) =>
                /\ cycleLog[i].ok
                /\ StartsWith(messages[cycleLog[i].at].content,
                              <<"Command executed: ">> \o cycleLog[i].what)
                /\ \E k \in 1..Len(commandsExecuted) :
                      commandsExecuted[k].command = cycleLog[i].what

\* the child of a command event was not spawned or exited with a status
\* other than zero
ExitedNonZero(e) == ~e.result.child.launched \/ e.result.child.status # 0

\* C14: a command that exits with a non-zero status or cannot be launched
\* is reported as a failure: nothing is recorded in commandsExecuted, one
\* system message naming the command carries the captured stderr, or the
\* error's own message when stderr is empty, and the session goes on
C14_CommandFailureReported ==
    /\ (pc = "tools" \/ last = "committed") =>
          \A i \in EventsOf("command") :
              ExitedNonZero(cycleLog[i]) =>
                  /\ ~cycleLog[i].ok
                  /\ messages[cycleLog[i].at] = Msg("system",
                        <<"Command failed: ">> \o cycleLog[i].what \o <<NEWLINE, "Error: ">>
                        \o (IF cycleLog[i].result.child.stderr # <<>>
                            THEN cycleLog[i].result.child.stderr
                            ELSE cycleLog[i].result.message))
    /\ pc = "tools" =>
          Len(commandsExecuted) = Len(snap.commandsExecuted)
              + Cardinality({ i \in EventsOf("command") : cycleLog[i].ok })
    /\ last = "commandFailed" =>
          /\ pc = "tools"
          /\ exitCode = 0

\* a cycle is committed in which one command failed with output on stderr
\* and another with none
C14_Witness ==
    /\ last = "committed"
    /\ \E i, j \in EventsOf("command") :
          /\ ExitedNonZero(cycleLog[i]) /\ cycleLog[i].result.child.stderr # <<>>
          /\ ExitedNonZero(cycleLog[j]) /\ cycleLog[j].result.child.stderr = <<>>

\* the positions of the interactive loop and of the cycles it runs
InLoop == mode = "interactive" /\ pc \in {"awaiting", "modelCall", "tools"}

\* C15: once the interactive loop is entered the session ends only through
\* /exit, /quit or the closing of the input stream, with exit status zero;
\* a failed model call leaves the loop awaiting input, and a failed tool or
\* slash command does not end it either
C15_LoopEndsOnRequestOnly ==
    /\ [][(InLoop /\ pc' = "exited") =>
            /\ pc = "awaiting"
            /\ last' \in {"exit", "quit", "promptClosed"}
            /\ exitCode' = 0]_vars
    /\ []((mode = "interactive" /\ last = "modelFailed") => pc = "awaiting")
    /\ []((mode = "interactive" /\ last \in {"writeFailed", "commandFailed"}) => pc = "tools")
    /\ []((mode = "interactive"
            /\ last \in {"read", "readFailed", "search", "tree", "files", "unknown"})
            => pc = "awaiting")

\* the session is left with /quit after a turn whose model call failed
C15_Witness ==
    /\ mode = "interactive" /\ pc = "exited" /\ last = "quit"
    /\ messages[Len(messages)].role = "user"

\* the paths of the writes, and the commands, that succeeded in the cycle
WrittenInCycle == { cycleLog[i].what : i \in { j \in EventsOf("write") : cycleLog[j].ok } }
RanInCycle == { cycleLog[i].what : i \in { j \in EventsOf("command") : cycleLog[j].ok } }

\* what holds of a run of executeTask at every moment
TaskRunInvariant ==
    mode = "task" =>
        /\ inputs = 0
        /\ pc \notin {"start", "trustPrompt", "awaiting"}
        /\ tally.modelCalls <= 1
        /\ tally.cycles <= tally.modelCalls
        /\ pc \in {"tools", "summary"} => tally.modelCalls = 1
        /\ (pc = "summary" \/ last = "summary") =>
              /\ tally.cycles = 1
              /\ filesModified = WrittenInCycle
              /\ { commandsExecuted[k].command : k \in 1..Len(commandsExecuted) } = RanInCycle

\* how far a run of executeTask is from its end
TaskStage ==
    CASE pc = "new" -> 5
      [] pc = "analyze" -> 4
      [] pc = "modelCall" -> 3
      [] pc = "tools" -> 2
      [] pc = "summary" -> 1
      [] OTHER -> 0

\* a run of executeTask terminates: until it has ended a step can be taken,
\* and every step brings it nearer to its end
TaskRunEnds ==
    /\ []((mode = "task" /\ pc # "exited") => ENABLED CodeNext)
    /\ [][mode = "task" =>
            \/ TaskStage' < TaskStage
            \/ /\ TaskStage' = TaskStage
               /\ Len(fileWrites') + Len(commands') < Len(fileWrites) + Len(commands)]_vars

\* C16 as stated: every run of the one-shot entry point ends after exactly
\* one model call and exactly one response-handling cycle, with the report
C16_TaskRunsOneCycle ==
    /\ []TaskRunInvariant
    /\ []((mode = "task" /\ pc = "exited" /\ Constructed) =>
            /\ last = "summary"
            /\ tally.modelCalls = 1 /\ tally.cycles = 1)
    /\ TaskRunEnds

\* C16: the one-shot entry point never prompts for input and issues exactly
\* one model call; when the call returns it runs exactly one
\* response-handling cycle, reports the files modified and the commands
\* executed by it and ends with status zero; when the call fails it ends
\* with status one, without a cycle and without a report
C16_TaskRunsOneCycleOrFails ==
    /\ []TaskRunInvariant
    /\ []((mode = "task" /\ pc = "exited" /\ Constructed) =>
            /\ tally.modelCalls = 1
            /\ \/ last = "summary" /\ tally.cycles = 1 /\ exitCode = 0
               \/ last = "modelFailed" /\ tally.cycles = 0 /\ exitCode = 1)
    /\ TaskRunEnds

\* a task run has ended with its report after a cycle that wrote a file and
\* ran a command
C16_Witness ==
    /\ mode = "task" /\ pc = "exited" /\ last = "summary"
    /\ WrittenInCycle # {} /\ RanInCycle # {}

\* C17: without a key in the configuration store and in the environment the
\* run ends at construction with status one: no trust check, no prompt, no
\* file accessor call, no model call and no command comes before
C17_SetupFailedBeforeAnything ==
    (~hasApiKey /\ pc # "idle") =>
        /\ pc \in {"new", "exited"}
        /\ pc = "exited" => (last = "setupFailed" /\ exitCode = 1)
        /\ accessLog = {} /\ untrustedOps = {}
        /\ tally.trustChecks = 0 /\ tally.modelCalls = 0 /\ tally.answered = "none"
        /\ inputs = 0
        /\ messages = <<>> /\ filesModified = {} /\ commandsExecuted = <<>>
        /\ files \in InitialFiles
        /\ trustedWorkspaces \in { <<>>, <<Workspace>>, <<OtherWorkspace>> }

\* the run of a task in an untrusted workspace has ended at construction
C17_Witness ==
    /\ last = "setupFailed" /\ pc = "exited" /\ exitCode = 1
    /\ mode = "task"
    /\ trustedWorkspaces = <<>>

\* the positions of path in the trusted list
PositionsOf(trusted, path) == { i \in 1..Len(trusted) : trusted[i] = path }

\* C18: the trusted list never holds a path twice; after trust(p) a second
\* trust(p) changes nothing, p is trusted and every other path is trusted
\* exactly when it was before; a path trusted since the last reset of the
\* configuration is trusted, and isTrusted says so
C18_TrustIsIdempotentInsert ==
    /\ \A p \in TrustPaths : Cardinality(PositionsOf(trustedWorkspaces, p)) <= 1
    /\ trustOp.op = "trust" =>
          /\ trustWorkspace(trustedWorkspaces, trustOp.path) = trustedWorkspaces
          /\ isWorkspaceTrusted(trustedWorkspaces, trustOp.path)
          /\ \A q \in TrustPaths \ {trustOp.path} :
                isWorkspaceTrusted(trustedWorkspaces, q)
                    <=> isWorkspaceTrusted(trustOp.before, q)
          /\ isWorkspaceTrusted(trustOp.before, trustOp.path)
                => trustedWorkspaces = trustOp.before
    /\ \A p \in trustOp.since : isWorkspaceTrusted(trustedWorkspaces, p)
    /\ (trustOp.op = "isTrusted" /\ trustOp.path \in trustOp.since) => trustOp.result

\* trust(p) has been called on a path already trusted since the last reset,
\* with another path trusted beside it
C18_Witness ==
    /\ trustOp.op = "trust"
    /\ trustOp.path \in trustOp.since
    /\ isWorkspaceTrusted(trustOp.before, trustOp.path)
    /\ Len(trustedWorkspaces) >= 2
    /\ \E q \in trustOp.since : q # trustOp.path

\* the trust gate of an interactive session: evaluated once, first of all,
\* prompting exactly when the workspace is not trusted, and by no tool
TrustGateOnce ==
    /\ [](mode = "interactive" =>
            /\ pc \in {"new", "start"} => tally.trustChecks = 0
            /\ (pc \notin {"new", "start"} /\ last # "setupFailed")
                   => tally.trustChecks = 1
            /\ pc \in {"start", "trustPrompt"} =>
                   /\ accessLog = {} /\ tally.modelCalls = 0
                   /\ messages = initialMessages
                   /\ filesModified = {} /\ commandsExecuted = <<>>)
    /\ [][pc = "start" =>
            /\ pc' \in {"trustPrompt", "analyze"}
            /\ pc' = "trustPrompt"
                  <=> ~isWorkspaceTrusted(trustedWorkspaces, workspacePath)]_vars
    /\ [][pc' = "trustPrompt" => pc = "start"]_vars
    /\ [][pc = "tools" =>
            /\ tally'.trustChecks = tally.trustChecks
            /\ trustedWorkspaces' = trustedWorkspaces]_vars

Counters == {"prompt", "completion", "total"}

\* C20: after a successful model call of a chat session each token counter
\* is what it was when the message was sent plus what the call reported; no
\* step makes a counter smaller; a failed call, a blank line, a slash
\* command and the end of the session leave the counters as they were
C20_TokenCountersAdditive ==
    /\ [](cLast = "replied" =>
            \A c \in Counters : tokenUsage[c] = cSnap.tokenUsage[c] + cSnap.usage[c])
    /\ [][\A c \in Counters : tokenUsage'[c] >= tokenUsage[c]]_vars
    /\ [][(cPc = "modelCall" /\ cLast' = "modelFailed") => tokenUsage' = tokenUsage]_vars
    /\ [][(cPc = "awaiting" /\ cPc' \in {"awaiting", "exited"})
            => tokenUsage' = tokenUsage]_vars
    /\ [][tokenUsage' # tokenUsage => (cPc = "modelCall" /\ cLast' = "replied")]_vars

\* the second of two successful calls has reported its usage
C20_Witness ==
    /\ cLast = "replied"
    /\ cSnap.usage.total > 0
    /\ cSnap.tokenUsage.total > 0
    /\ tokenUsage.total = cSnap.tokenUsage.total + cSnap.usage.total

\* s is a prefix of t
IsPrefix(s, t) == Len(s) <= Len(t) /\ SubSeq(t, 1, Len(s)) = s

\* C21: every step of a session of the code command other than /reset
\* leaves session.messages as it was or longer, with what it held before as
\* a prefix
C21_MessagesAppendOnly ==
    [][last' \notin {"reset", "restarted"} => IsPrefix(messages, messages')]_vars

\* /read has appended a file to a history that already holds a whole turn
C21_Witness ==
    /\ last = "read" /\ snap # NoSnap
    /\ Len(messages) >= Len(snap.messages) + 3
    /\ messages[Len(messages)].role = "system"
    /\ messages[Len(messages) - 1].role = "assistant"

\* the normal form names a place at or below the directory it is taken from
StaysBelow(p) == \A i \in 1..Len(NormalForm(p)) : NormalForm(p)[i] # DOTDOT

\* root joined with a normal form that stays below it
JoinUnder(root, segs) ==
    IF segs = <<>> THEN root
    ELSE IF root = <<SEP>> THEN JoinSegs(segs)
    ELSE root \o JoinSegs(segs)

\* C22: a relative path whose normal form stays inside the root is accepted
\* and resolves to the root joined with that normal form, 'a/b/../c' to
\* root/a/c; '../../etc/passwd' is denied from every root it leads out of
C22_ResolveNormalizesOrDenies ==
    pOut # NoResult =>
        /\ (~IsAbsolute(pArg) /\ StaysBelow(pArg)) =>
              /\ pOut.ok
              /\ pOut.path = JoinUnder(pRoot, NormalForm(pArg))
        /\ pArg = A_B_UP_C => pOut.path = JoinUnder(pRoot, << <<"a">>, <<"c">> >>)
        /\ (pArg = UP_UP_ETC_PASSWD /\ ~Inside(pRoot, PathResolve(pRoot, pArg))) =>
              /\ ~pOut.ok
              /\ pOut.error = ACCESS_DENIED

\* C23: when the assistant message of a reply with N write intents and M
\* command intents (N + M >= 1) has been appended, the history is what
\* processMessage found, then the user message, one system message for
\* each write in document order, one for each command in document order,
\* and the reply as the model gave it
C23_CycleAppendsOutcomes ==
    (last = "committed" /\ Len(ReplyWrites) + Len(ReplyCommands) >= 1) =>
        LET base == Len(snap.messages)
            N == Len(ReplyWrites)
            M == Len(ReplyCommands)
        IN  /\ Len(messages) = base + N + M + 2
            /\ SubSeq(messages, 1, base) = snap.messages
            /\ messages[base + 1] = Msg("user", snap.userMessage)
            /\ \A i \in 1..N :
                  LET m == messages[base + 1 + i] IN
                  /\ m.role = "system"
                  /\ \/ m.content = <<"File written: ">> \o ReplyWrites[i].path
                     \/ IsPrefix(<<"File write failed for ">> \o ReplyWrites[i].path
                                 \o <<": ">>, m.content)
            /\ \A j \in 1..M :
                  LET m == messages[base + 1 + N + j] IN
                  /\ m.role = "system"
                  /\ \/ IsPrefix(<<"Command executed: ">> \o ReplyCommands[j]
                                 \o <<NEWLINE, "Output: ">>, m.content)
                     \/ IsPrefix(<<"Command failed: ">> \o ReplyCommands[j]
                                 \o <<NEWLINE, "Error: ">>, m.content)
            /\ messages[base + N + M + 2] = Msg("assistant", rawReply)

\* a reply with two writes and two commands has been handled, one write
\* and one command having failed
C23_Witness ==
    /\ last = "committed"
    /\ Len(ReplyWrites) = 2 /\ Len(ReplyCommands) = 2
    /\ \E i \in EventsOf("write") : ~cycleLog[i].ok
    /\ \E i \in EventsOf("command") : ~cycleLog[i].ok
    /\ Len(messages) = Len(snap.messages) + 6

\* the output or error text that the message of a command event carries
OutcomeText(e) ==
    LET content == messages[e.at].content
        lead == IF e.ok
                THEN <<"Command executed: ">> \o e.what \o <<NEWLINE, "Output: ">>
                ELSE <<"Command failed: ">> \o e.what \o <<NEWLINE, "Error: ">>
    IN  SubSeq(content, Len(lead) + 1, Len(content))

\* C24: the system message of every command outcome of the cycle, of a
\* command that ran and of one that failed, carries at most ContextBudget
\* characters of the command's output or error text
C24_OutcomeWithinBudget ==
    (pc = "tools" \/ last = "committed") =>
        \A i \in EventsOf("command") :
            CharLen(OutcomeText(cycleLog[i])) <= ContextBudget

\* the verb and the argument handleCommand takes from a line
VerbOf(line) == Head(SplitOn(Tail(Trim(line)), SPACE))
ArgOf(line) == JoinWith(Tail(SplitOn(Tail(Trim(line)), SPACE)), SPACE)

\* the line just read is a slash command
SlashStep ==
    /\ pc = "awaiting" /\ inputs' = inputs + 1
    /\ Trim(tally'.line) # <<>> /\ Head(Trim(tally'.line)) = "/"

\* part occurs in text
Contains(text, part) ==
    \E i \in 1..(Len(text) - Len(part) + 1) : SubSeq(text, i, i + Len(part) - 1) = part

\* C25: /read makes no model call and leaves the session awaiting input;
\* a read that succeeds appends one system message holding the content of
\* the file; a read that fails (no argument, a path outside the working
\* directory, no such file, another I/O error) leaves the history as it was
C25_ReadInjectsOrReports ==
    [][(SlashStep /\ VerbOf(tally'.line) = <<"read">>) =>
         LET path == ArgOf(tally'.line)
             target == PathResolve(workspacePath, path)
         IN  /\ pc' = "awaiting"
             /\ last' \in {"read", "readFailed"}
             /\ tally'.modelCalls = tally.modelCalls
             /\ "model" \in accessLog' => "model" \in accessLog
             /\ files' = files
             /\ filesModified' = filesModified /\ commandsExecuted' = commandsExecuted
             /\ last' = "read" =>
                   /\ validatePath(workspacePath, path).ok /\ target \in DOMAIN files
                   /\ Len(messages') = Len(messages) + 1
                   /\ IsPrefix(messages, messages')
                   /\ messages'[Len(messages')].role = "system"
                   /\ Contains(messages'[Len(messages')].content,
                               Utf8Decode(files[target]))
             /\ last' = "readFailed" => messages' = messages
             /\ (path = <<>> \/ ~validatePath(workspacePath, path).ok
                    \/ target \notin DOMAIN files) => last' = "readFailed"]_vars

\* after a /read that put a file in the history, a /read of a path outside
\* the working directory has failed
C25_Witness ==
    /\ last = "readFailed" /\ pc = "awaiting"
    /\ ArgOf(tally.line) = <<".", ".", "/", "x">>
    /\ Len(messages) >= 2
    /\ Contains(messages[Len(messages)].content, <<"File content of ", "a">>)

\* C26: a line that is empty or holds only whitespace leaves the session as
\* it was (the history, filesModified, commandsExecuted, the trusted set,
\* the files), makes no model call, no file access and no command, and the
\* loop prompts again; so it is in the chat session
C26_BlankLineNoEffect ==
    /\ [][(pc = "awaiting" /\ inputs' = inputs + 1 /\ Trim(tally'.line) = <<>>) =>
            /\ pc' = "awaiting"
            /\ UNCHANGED <<messages, filesModified, commandsExecuted, trustedWorkspaces,
                           files, accessLog, untrustedOps, turnVars, exitCode, snap,
                           cycleLog>>
            /\ tally'.modelCalls = tally.modelCalls]_vars
    /\ [][(cPc = "awaiting" /\ cInputs' = cInputs + 1 /\ Trim(cSnap'.line) = <<>>) =>
            /\ cPc' = "awaiting"
            /\ UNCHANGED <<cMessages, currentModel, sampling, tokenUsage, cExitCode>>]_vars

\* a line of two spaces has been typed after a whole turn
C26_Witness ==
    /\ last = "blank" /\ pc = "awaiting"
    /\ tally.line = <<SPACE, SPACE>>
    /\ tally.cycles = 1
    /\ messages[Len(messages)].role = "assistant"

\* the verbs handleCommand knows
KnownVerbs == { <<"exit">>, <<"quit">>, <<"clear">>, <<"read">>, <<"write">>, <<"search">>,
                <<"tree">>, <<"files">>, <<"reset">>, <<"help">> }

\* the messages of the given role
CountRole(msgs, role) == Cardinality({ i \in 1..Len(msgs) : msgs[i].role = role })

\* C27: a line beginning with '/' appends no user message and brings no
\* model call, no file write and no command; a verb that is not known
\* leaves the history as it was and the session awaiting input; of the
\* known verbs only read and reset change the history
C27_SlashCommandsStayLocal ==
    [][SlashStep =>
         /\ pc' \in {"awaiting", "exited"}
         /\ tally'.modelCalls = tally.modelCalls
         /\ accessLog' \subseteq accessLog \cup {"fs"}
         /\ UNCHANGED <<files, filesModified, commandsExecuted, turnVars>>
         /\ CountRole(messages', "user") <= CountRole(messages, "user")
         /\ CountRole(messages', "assistant") <= CountRole(messages, "assistant")
         /\ VerbOf(tally'.line) \notin KnownVerbs =>
               /\ messages' = messages
               /\ pc' = "awaiting"
               /\ last' = "unknown"
         /\ VerbOf(tally'.line) \in KnownVerbs \ { <<"read">>, <<"reset">> } =>
               messages' = messages
         /\ pc' = "exited" <=> VerbOf(tally'.line) \in { <<"exit">>, <<"quit">> }]_vars

\* an unknown verb has been typed after a whole turn
C27_Witness ==
    /\ last = "unknown" /\ pc = "awaiting"
    /\ VerbOf(tally.line) = <<"bogus">>
    /\ CountRole(messages, "user") = 1
    /\ CountRole(messages, "assistant") = 1

\* C28: exists returns for every argument, with true or false; it returns
\* false whenever its probe raised an error, and so for a path that
\* validatePath rejects; it returns true only for what is there
C28_ExistsNeverFails ==
    fOp.op = "exists" =>
        /\ fOp.ok
        /\ fOp.value \in BOOLEAN
        /\ fOp.error # <<>> => ~fOp.value
        /\ ~validatePath(pRoot, fOp.path).ok =>
              /\ ~fOp.value
              /\ fOp.error = <<ACCESS_DENIED>>
        /\ fOp.value =>
              LET target == PathResolve(pRoot, fOp.path) IN
              target \in DOMAIN fFiles \/ IsDirectory(pRoot, fFiles, target)

\* exists has been asked about a path outside the working directory after
\* a file was written
C28_Witness ==
    /\ fOp.op = "exists" /\ fOp.ok /\ ~fOp.value
    /\ fOp.path = <<".", ".", "/", "x">>
    /\ fOp.error = <<ACCESS_DENIED>>
    /\ DOMAIN fWritten # {}

\* the tag markers
Markers == WriteOpen \cup {WO_EMPTY, WC, CO, CC}

\* the piece is one tag: an opening marker, a body without markers, and the
\* closing marker of its kind
IsTag(piece, opens, close) ==
    /\ Len(piece) >= 2
    /\ piece[1] \in opens /\ piece[Len(piece)] = close
    /\ \A k \in 2..(Len(piece) - 1) : piece[k] \notin Markers

BodyOf(piece) == SubSeq(piece, 2, Len(piece) - 1)

IsSimplePiece(piece) ==
    \/ IsTag(piece, WriteOpen \cup {WO_EMPTY}, WC)
    \/ IsTag(piece, {CO}, CC)
    \/ \A k \in 1..Len(piece) : piece[k] \notin Markers

\* what C29 has the parser return for one tag
TagWrites(piece) ==
    IF IsTag(piece, WriteOpen, WC) /\ Trim(PathAttr(piece[1])) # <<>>
    THEN <<[path |-> Trim(PathAttr(piece[1])), content |-> Trim(BodyOf(piece))]>>
    ELSE <<>>

TagCommands(piece) ==
    IF IsTag(piece, {CO}, CC) /\ Trim(BodyOf(piece)) # <<>>
    THEN <<Trim(BodyOf(piece))>>
    ELSE <<>>

\* C29: of a reply made of single tags and plain text the parser returns, in
\* order, one write intent for every write_file tag whose path is not empty
\* after trimming, with the trimmed body as content (the empty string for an
\* empty body), and one command for every execute_command tag whose body is
\* not empty after trimming; whatever the reply, no returned path or command
\* is empty and every content and command is trimmed
C29_ParserDiscardsEmpty ==
    tOut.done =>
        /\ (\A k \in 1..Len(tPieces) : IsSimplePiece(tPieces[k])) =>
              /\ tOut.fileWrites = FlatMap(TagWrites, tPieces)
              /\ tOut.commands = FlatMap(TagCommands, tPieces)
        /\ \A i \in 1..Len(tOut.fileWrites) :
              /\ tOut.fileWrites[i].path # <<>>
              /\ tOut.fileWrites[i].content = Trim(tOut.fileWrites[i].content)
        /\ \A j \in 1..Len(tOut.commands) :
              /\ tOut.commands[j] # <<>>
              /\ tOut.commands[j] = Trim(tOut.commands[j])

\* a reply of a write tag with a blank path, a command tag with a blank
\* body and a write tag with an empty body has been parsed
C29_Witness ==
    /\ tOut.done
    /\ tPieces = << <<WO_SP, "x", WC>>, <<CO, SPACE, CC>>, WriteUpEmpty >>
    /\ tOut.commands = <<>>
    /\ tOut.fileWrites = <<[path |-> <<".", ".", "/", "x">>, content |-> <<>>]>>

\* the step taken is executeCommand
CommandRan ==
    /\ pc = "tools"
    /\ Len(cycleLog') = Len(cycleLog) + 1
    /\ cycleLog'[Len(cycleLog')].op = "command"

\* C30: whenever a command is run, it is the head of the pending commands
\* handed to execSync whatever its classification, and the message appended
\* and the entry added to commandsExecuted are those the same outcome gives
\* under the opposite classification; only the lines printed depend on it
C30_ReadOnlyOnlyEcho ==
    [][CommandRan =>
        LET e == cycleLog'[Len(cycleLog')]
            command == Head(commands)
            asIs == executeCommand(command, e.result, isReadCommand(command))
            flipped == executeCommand(command, e.result, ~isReadCommand(command))
        IN /\ e.what = command
           /\ e.result \in execSync(command, workspacePath, files)
           /\ messages' = Append(messages, flipped.message)
           /\ commandsExecuted' = commandsExecuted \o flipped.history
           /\ e.echo = asIs.echo
           /\ isReadCommand(command) /\ e.ok => e.echo = <<>>
           /\ ~isReadCommand(command) => e.echo # <<>> /\ flipped.echo # asIs.echo
    ]_vars

\* one cycle has run a command classified read-only and one that is not, both
\* with success: the first printed nothing, the second did, and both are in
\* the command history and in the messages
C30_Witness ==
    \E i, j \in EventsOf("command") :
        /\ cycleLog[i].ok /\ isReadCommand(cycleLog[i].what) /\ cycleLog[i].echo = <<>>
        /\ cycleLog[j].ok /\ ~isReadCommand(cycleLog[j].what) /\ cycleLog[j].echo # <<>>
        /\ \E a, b \in 1..Len(commandsExecuted) :
              /\ commandsExecuted[a].command = cycleLog[i].what
              /\ commandsExecuted[b].command = cycleLog[j].what
        /\ pc = "tools"
        /\ messages[cycleLog[i].at].content[1] = "Command executed: "
        /\ messages[cycleLog[j].at].content[1] = "Command executed: "

\* the step taken is processMessage up to its model call
CallStarts == pc # "modelCall" /\ pc' = "modelCall"

\* C31: the sequence sent with a model call is the whole of session.messages
\* with the turn's user message last; when a call was made before in the
\* session and no /reset was typed since, what that call sent is a prefix of
\* what this one sends, and this one holds, after that prefix, the outcome
\* message of every tool of the cycle before and its assistant reply
C31_CallSendsWholeHistory ==
    [][CallStarts =>
        /\ snap'.sent = messages'
        /\ snap'.sent[Len(snap'.sent)] = Msg("user", snap'.userMessage)
        /\ Trim(tally'.line) # <<>> => snap'.userMessage = Trim(tally'.line)
        /\ (snap.sent # <<>> /\ ~snap.reset) =>
              /\ IsPrefix(snap.sent, snap'.sent)
              /\ Len(snap'.sent) > Len(snap.sent)
              /\ cycleLog # <<>> => cycleLog[Len(cycleLog)].op = "assistant"
              /\ \A i \in 1..Len(cycleLog) :
                    LET m == snap'.sent[cycleLog[i].at] IN
                    /\ cycleLog[i].at = Len(snap.sent) + i
                    /\ cycleLog[i].at < Len(snap'.sent)
                    /\ cycleLog[i].op = "assistant" => m = Msg("assistant", reply)
                    /\ cycleLog[i].op = "write" =>
                          /\ m.role = "system"
                          /\ m.content[1] = IF cycleLog[i].ok THEN "File written: "
                                            ELSE "File write failed for "
                    /\ cycleLog[i].op = "command" =>
                          /\ m.role = "system"
                          /\ m.content[1] = IF cycleLog[i].ok THEN "Command executed: "
                                            ELSE "Command failed: "
    ]_vars

\* a second model call is pending after a cycle that wrote a file and ran a
\* command, with no /reset in between
C31_Witness ==
    /\ pc = "modelCall" /\ tally.modelCalls = 1 /\ ~snap.reset
    /\ Len(snap.sent) >= 6
    /\ \E i, j, k \in 1..(Len(snap.sent) - 1) :
          /\ i < j /\ j < k
          /\ snap.sent[i].content[1] = "File written: "
          /\ snap.sent[j].content[1] = "Command executed: "
          /\ snap.sent[k].role = "assistant"
    /\ snap.sent[Len(snap.sent)].role = "user"

\* a chat session exists: chatCommand resolved the model and built it
ChatSessionExists == cPc \in {"awaiting", "modelCall"} \/ (cPc = "exited" /\ cExitCode = 0)

\* the step taken is the chat loop handling a /switch line
SwitchStep ==
    /\ cPc = "awaiting" /\ cInputs' = cInputs + 1
    /\ Len(cSnap'.line) >= 3
    /\ SubSeq(cSnap'.line, 1, 3) = <<"/", "switch", SPACE>>

\* C32: while a chat session exists currentModel is a canonical identifier
\* of the registry; /switch with a known identifier or alias makes it the
\* canonical identifier of that model, and /switch with an unknown name
\* leaves it, the messages and the token counters as they were, the session
\* awaiting the next line
C32_CurrentModelCanonical ==
    /\ [](ChatSessionExists => currentModel \in ModelIds)
    /\ [][SwitchStep =>
            LET name == cSnap'.line[4] IN
            /\ cPc' = "awaiting"
            /\ UNCHANGED <<cMessages, tokenUsage, sampling>>
            /\ name \in ModelIds => currentModel' = name
            /\ name = "Sonnet" => currentModel' = SONNET
            /\ getModel(name) # "" => currentModel' = getModel(name)
            /\ name = "gpt-9" => currentModel' = currentModel]_vars

\* after a whole turn with gpt-5, the alias Sonnet has been switched to
C32_Witness ==
    /\ cLast = "switch" /\ cSnap.line = <<"/", "switch", SPACE, "Sonnet">>
    /\ currentModel = SONNET
    /\ Len(cMessages) = 3 /\ cPc = "awaiting"

\* the step taken is the chat loop handling /clear
ClearStep ==
    /\ cPc = "awaiting" /\ cInputs' = cInputs + 1
    /\ cSnap'.line # <<>> /\ Head(cSnap'.line) = "/"
    /\ Trim(cSnap'.line) = <<"/", "clear">>

\* the positions of the system messages of msgs
SystemPositions(msgs) == { i \in 1..Len(msgs) : msgs[i].role = "system" }

\* C33: /clear in a chat session leaves the system messages of the sequence
\* before, all of them and in their order, and nothing else; the system
\* prompt the session started with is among them; currentModel, the
\* sampling parameters and the token counters are unchanged
C33_ClearKeepsSystemMessages ==
    [][ClearStep =>
        LET S == SystemPositions(cMessages) IN
        /\ Len(cMessages') = Cardinality(S)
        /\ \A k \in 1..Len(cMessages') :
              cMessages'[k] = cMessages[CHOOSE i \in S :
                                            Cardinality({ j \in S : j <= i }) = k]
        /\ cMessages' # <<>> /\ cMessages'[1] = Msg("system", DEFAULT_SYSTEM)
        /\ \A k \in 1..Len(cMessages') : cMessages'[k].role \notin {"user", "assistant"}
        /\ UNCHANGED <<currentModel, sampling, tokenUsage>>
        /\ cPc' = "awaiting"]_vars

\* /clear has been typed after a whole turn that counted tokens
C33_Witness ==
    /\ cLast = "clear" /\ cSnap.line = <<"/", "clear">>
    /\ Len(cSnap.messages) = 1 /\ cSnap.userMessage = <<"hi">>
    /\ cMessages = <<Msg("system", DEFAULT_SYSTEM)>>
    /\ tokenUsage.total = 5

\* the file found by the search can be read
Readable(file) ==
    /\ validatePath(pRoot, file).ok
    /\ PathResolve(pRoot, file) \in DOMAIN fFiles
    /\ PathResolve(pRoot, file) \notin fOp.blocked

\* C34: a listing of a directory that can be read succeeds whatever entry
\* cannot be stat'ed, and holds, in the order of the directory, one entry for
\* each name that can be stat'ed and none for the others; a search that
\* returns raises nothing and holds, in the order the files were found, the
\* files that can be read and contain the text, each with a match, and none of
\* the files whose read fails or whose path is rejected
C34_PartialResults ==
    /\ fOp.op = "list" =>
          LET dir == validatePath(pRoot, fOp.path)
              kept == SelectSeq(fOp.names,
                        LAMBDA nm : PathResolve(pRoot, pathJoin(fOp.path, nm))
                                      \notin fOp.blocked)
          IN /\ fOp.ok <=> (dir.ok /\ dir.path \notin DOMAIN fFiles
                                   /\ IsDirectory(pRoot, fFiles, dir.path))
             /\ fOp.ok =>
                   /\ { fOp.names[k] : k \in 1..Len(fOp.names) }
                        = ChildNames(fFiles, dir.path)
                   /\ Len(fOp.names) = Cardinality(ChildNames(fFiles, dir.path))
                   /\ Len(fOp.entries) = Len(kept)
                   /\ \A k \in 1..Len(kept) :
                         /\ fOp.entries[k].path = pathJoin(fOp.path, kept[k])
                         /\ fOp.entries[k].isDirectory
                              <=> PathResolve(pRoot, fOp.entries[k].path) \notin DOMAIN fFiles
    /\ (fOp.op = "search" /\ fOp.returned) =>
          LET hits == SelectSeq(fOp.found,
                        LAMBDA file : Readable(file)
                                      /\ Contains(Utf8Decode(fFiles[PathResolve(pRoot, file)]),
                                                  fOp.content))
          IN /\ fOp.ok
             /\ Len(fOp.results) = Len(hits)
             /\ \A k \in 1..Len(hits) :
                   /\ fOp.results[k].path = hits[k]
                   /\ fOp.results[k].matches # <<>>

\* a search has found a file outside the working directory, a file whose
\* read fails and a file that matches, and has returned the last alone
C34_Witness ==
    /\ fOp.op = "search" /\ fOp.returned /\ fOp.content = <<"x">>
    /\ fOp.blocked = { <<"/", "w", "/", "c">> }
    /\ \E i, j, k \in 1..Len(fOp.found) :
          /\ fOp.found[i] = <<".", ".", "/", "o">>
          /\ fOp.found[j] = <<".", ".", "/", "w", "/", "c">>
          /\ fOp.found[k] = <<".", ".", "/", "w", "/", "d", "/", "e">>
    /\ Len(fOp.results) = 1
    /\ fOp.results[1].path = <<".", ".", "/", "w", "/", "d", "/", "e">>
    /\ fOp.results[1].matches = << [line |-> 2, column |-> 1], [line |-> 2, column |-> 2] >>

\* C37: every call of searchInFiles returns, whatever the glob pattern and
\* the search text, the empty text and texts of metacharacters included
C37_SearchTerminates == fOp.op = "search" => fOp.returned

\* every assistant message of msgs comes after a user message with nothing
\* but system messages between the two
AssistantAnswersUser(msgs) ==
    \A i \in 1..Len(msgs) :
        msgs[i].role = "assistant" =>
            \E j \in 1..(i - 1) :
                /\ msgs[j].role = "user"
                /\ \A k \in (j + 1)..(i - 1) : msgs[k].role = "system"

\* C35: in the coding assistant and in the chat session the history never
\* holds more assistant messages than user messages, and every assistant
\* message follows the user message of its turn: only the turn's tool
\* outcomes stand between them in the coding assistant, nothing in the chat
C35_AssistantFollowsUser ==
    /\ CountRole(messages, "assistant") <= CountRole(messages, "user")
    /\ AssistantAnswersUser(messages)
    /\ last = "committed" =>
          /\ messages[Len(messages)].role = "assistant"
          /\ messages[Len(messages) - Len(cycleLog)] = Msg("user", snap.userMessage)
    /\ CountRole(cMessages, "assistant") <= CountRole(cMessages, "user")
    /\ \A i \in 1..Len(cMessages) :
          cMessages[i].role = "assistant" => i > 1 /\ cMessages[i - 1].role = "user"
    /\ cLast = "replied" =>
          cMessages[Len(cMessages) - 1] = Msg("user", cSnap.userMessage)

\* a turn has been answered and the call of the next one has failed: two
\* user messages and one assistant message
C35_Witness ==
    /\ last = "modelFailed" /\ pc = "awaiting"
    /\ CountRole(messages, "user") = 2
    /\ CountRole(messages, "assistant") = 1
    /\ messages[Len(messages)].role = "user"

\* C36: a command tag inside the content of a write tag gives a write
\* intent whose content holds the tag as text and a command intent for the
\* command; in the cycle the file is written, with the tag in it, and the
\* command is run after that
C36_NestedCommandRuns ==
    /\ (pc = "tools" /\ Contains(reply, WriteWithCat)) =>
          /\ \E k \in 1..Len(ReplyWrites) :
                ReplyWrites[k] = [path |-> <<"a">>, content |-> <<CO, "cat a", CC>>]
          /\ \E k \in 1..Len(ReplyCommands) : ReplyCommands[k] = CAT_A
    /\ (pc = "tools" \/ last = "committed") =>
          \A k \in 1..Len(ReplyWrites) :
            LET w == ReplyWrites[k]
                nested == extractCommands(w.content)
            IN \A n \in 1..Len(nested) :
                 /\ Contains(w.content, <<CO>>) /\ Contains(w.content, <<CC>>)
                 /\ \E c \in 1..Len(ReplyCommands) : ReplyCommands[c] = nested[n]
                 /\ last = "committed" =>
                       \E i \in EventsOf("write"), j \in EventsOf("command") :
                           /\ i < j
                           /\ cycleLog[i].what = w.path
                           /\ cycleLog[j].what = nested[n]
                           /\ (cycleLog[i].ok /\ Cardinality(EventsOf("write")) = 1) =>
                                 files[PathResolve(workspacePath, w.path)]
                                   = Utf8Encode(w.content)

\* the cycle of a reply that is one write tag around a command tag has
\* written the file and then run the command
C36_Witness ==
    /\ last = "committed" /\ reply = WriteWithCat
    /\ Len(cycleLog) = 3
    /\ cycleLog[1].op = "write" /\ cycleLog[1].ok /\ cycleLog[1].what = <<"a">>
    /\ cycleLog[2].op = "command" /\ cycleLog[2].ok /\ cycleLog[2].what = CAT_A
    /\ files[PathResolve(workspacePath, <<"a">>)] = <<CO, "cat a", CC>>
    /\ commandsExecuted[Len(commandsExecuted)].output = <<CO, "cat a", CC>>

RECURSIVE RanOk(_)
\* the commands of the events that execSync returned from, with what the
\* child wrote to stdout, in the order of the events
RanOk(events) ==
    IF events = <<>> THEN <<>>
    ELSE (IF Head(events).op = "command" /\ Head(events).ok
          THEN <<[command |-> Head(events).what,
                  output |-> Head(events).result.child.stdout]>>
          ELSE <<>>) \o RanOk(Tail(events))

\* C38: during and after a cycle filesModified is what it was before the
\* cycle plus the paths of the cycle's writes that succeeded, and
\* commandsExecuted is what it was plus, in order, the cycle's commands that
\* succeeded, each with its whole output; a failed write or command adds
\* nothing; no step but a write or a command of a cycle changes either log
\* within a session, /reset and the other slash commands included
C38_LogsAreSuccesses ==
    /\ []((pc = "tools" \/ last = "committed") =>
            /\ filesModified = snap.filesModified
                                \cup { cycleLog[i].what :
                                         i \in { k \in EventsOf("write") : cycleLog[k].ok } }
            /\ commandsExecuted = snap.commandsExecuted \o RanOk(cycleLog))
    /\ [][(filesModified' # filesModified \/ commandsExecuted' # commandsExecuted) =>
            \/ pc = "tools" /\ last' \in {"wrote", "ran"}
            \/ last' = "restarted"]_vars

\* a cycle with a write that failed, a write that succeeded and two commands
\* that succeeded, one of them with more output than the context budget
C38_Witness ==
    /\ last = "committed"
    /\ filesModified = { <<"a">> }
    /\ \E i \in EventsOf("write") : ~cycleLog[i].ok
    /\ Len(commandsExecuted) = 2
    /\ commandsExecuted[1] = [command |-> <<"ls">>, output |-> <<KILO, "out">>]
    /\ commandsExecuted[2].command = CAT_A

\* the step taken is a call of one of the six operations that take a path
PathOpCalled ==
    /\ fOp'.n = fOp.n + 1
    /\ fOp'.op \in {"read", "write", "info", "list", "backup", "delete"}

\* C39: a call of read, write, getFileInfo, list, createBackup or delete
\* whose path resolves to a place that does not start with the working
\* directory fails with AccessDenied, and a call that fails with
\* AccessDenied has handed no path to the filesystem and has left every
\* file as it was: no file, no backup and no parent directory is made
C39_RejectedTouchesNothing ==
    [][PathOpCalled =>
        /\ ~StartsWith(PathResolve(pRoot, fOp'.path), pRoot) =>
              ~fOp'.ok /\ fOp'.error = <<ACCESS_DENIED>>
        /\ fOp'.error = <<ACCESS_DENIED>> =>
              /\ ~fOp'.ok
              /\ fOp'.touched = {}
              /\ fFiles' = fFiles
        /\ fOp'.error # <<ACCESS_DENIED>> =>
              /\ PathResolve(pRoot, fOp'.path) \in fOp'.touched
              /\ \A f \in (DOMAIN fFiles' \ DOMAIN fFiles) \cup (DOMAIN fFiles \ DOMAIN fFiles')
                       \cup { g \in DOMAIN fFiles \cap DOMAIN fFiles' : fFiles'[g] # fFiles[g] } :
                    f \in fOp'.touched
    ]_vars

\* a write to a path outside the working directory has been refused on a
\* filesystem that holds a backup made before
C39_Witness ==
    /\ fOp.op = "write" /\ fOp.path = <<".", ".", "/", "x">>
    /\ fOp.error = <<ACCESS_DENIED>> /\ fOp.touched = {}
    /\ <<"/", "w", "/", "a", BACKUP_SUFFIX>> \in DOMAIN fFiles
    /\ <<"/", "x">> \notin DOMAIN fFiles

=============================================================================
